---- MODULE Spec2Model ----
(***************************************************************************)
(* Collaborative canvas server: the per-room drawing state (history and    *)
(* redo stack, server/drawing-state.js), the room registry with colour     *)
(* assignment (server/rooms.js) and the socket handlers that dispatch      *)
(* inbound messages and fan the results out (server/server.js).            *)
(***************************************************************************)
EXTENDS Integers, Sequences, FiniteSets, TLC

VARIABLES
    roomStates,   \* drawing-state.js roomStates: roomId -> [history, redoStack]
    rooms,        \* rooms.js rooms: roomId -> insertion-ordered <<[id, color]>>
    currentRoom,  \* server.js closure variable currentRoom, one per socket
    userColor,    \* server.js closure variable userColor, one per socket
    socketRooms,  \* socket.io rooms each socket was put in by socket.join
    connected,    \* TRUE until the socket's disconnect handler has run
    lastEvent,    \* the inbound message handled by the last step
    pre,          \* roomStates as it was before the last step
    outbox,       \* the emits of the last step, in emission order
    ret,          \* the last direct call of a module function: what it
                  \* returned and the registry it was made on
    clients       \* client/canvas.js, for the sockets whose browser is
                  \* modelled: the strokes on its canvas, the messages on
                  \* their way to the server and to it, the messages it sent

vars == <<roomStates, rooms, currentRoom, userColor, socketRooms, connected,
          lastEvent, pre, outbox, ret, clients>>

---------------------------------------------------------------------------
(* Bounds of the model.  MAX_HISTORY_SIZE is 10000 in drawing-state.js and *)
(* USER_COLORS has 20 entries in rooms.js; the model keeps the code and    *)
(* scales both down so that eviction and palette wrap-around are reached.  *)

MaxSessions == 2        \* sockets that draw
MaxMembers == 4         \* sockets that only join and leave
MAX_HISTORY_SIZE == 2
NumColors == 3
MaxStrokes == 2         \* strokes a browser that only draws sends
MaxSends == 1           \* messages a modelled browser sends after JOIN_ROOM

SessionIds == <<"s1", "s2", "s3", "s4", "s5", "s6">>
Sessions == {SessionIds[i] : i \in 1..MaxSessions}
Members == {SessionIds[i] : i \in 1..MaxMembers}
AllSessions == Sessions \cup Members

USER_COLORS ==
    SubSeq(<<"#FF5733", "#33FF57", "#3357FF", "#FF33A1", "#A133FF",
             "#33FFF6", "#F6FF33", "#FF8C33", "#8C33FF", "#33FF8C",
             "#FF6B6B", "#4ECDC4", "#45B7D1", "#FFA07A", "#98D8C8",
             "#F7DC6F", "#BB8FCE", "#85C1E2", "#F8B739", "#52B788">>,
           1, NumColors)

NULL == <<>>          \* currentRoom = null (a room id is a sequence of characters)
NoColor == "null"     \* userColor = null

---------------------------------------------------------------------------
(* JavaScript values as far as the validators look at them: a scalar has a *)
(* typeof tag, a numeric value and a string value.                         *)

Num(k) == [t |-> "number", n |-> k, s |-> ""]
Str(x) == [t |-> "string", n |-> 0, s |-> x]
Undefined == [t |-> "undefined", n |-> 0, s |-> ""]

Falsy(v) ==
    \/ v.t \in {"undefined", "null"}
    \/ v.t = "number" /\ v.n = 0
    \/ v.t = "string" /\ v.s = ""

Point(a, b) == [t |-> "object", x |-> a, y |-> b]
NoPoint == [t |-> "undefined", x |-> Undefined, y |-> Undefined]
NullPoint == [t |-> "null", x |-> Undefined, y |-> Undefined]

Operation(f, g, tl, w, c) ==
    [t |-> "object", from |-> f, to |-> g, tool |-> tl, lineWidth |-> w, color |-> c]
NoOperation ==
    [t |-> "undefined", from |-> NoPoint, to |-> NoPoint, tool |-> Undefined,
     lineWidth |-> Undefined, color |-> Undefined]

(* isValidOperation without the upper bound of line 48 *)
isValidOperation_NoUpperBound(op) ==
    IF op.t # "object" THEN FALSE
    ELSE IF op.from.t # "object" \/ op.to.t # "object" THEN FALSE
    ELSE IF op.from.x.t # "number" \/ op.from.y.t # "number" THEN FALSE
    ELSE IF op.to.x.t # "number" \/ op.to.y.t # "number" THEN FALSE
    ELSE IF Falsy(op.tool) \/ (op.tool # Str("brush") /\ op.tool # Str("eraser")) THEN FALSE
    ELSE IF op.lineWidth.t # "number" \/ op.lineWidth.n < 1 THEN FALSE
    ELSE IF op.tool = Str("brush") /\ (Falsy(op.color) \/ op.color.t # "string") THEN FALSE
    ELSE TRUE

(* isValidOperation with the colour test of line 53 applied to every tool *)
isValidOperation_EraserNeedsColor(op) ==
    IF op.t # "object" THEN FALSE
    ELSE IF op.from.t # "object" \/ op.to.t # "object" THEN FALSE
    ELSE IF op.from.x.t # "number" \/ op.from.y.t # "number" THEN FALSE
    ELSE IF op.to.x.t # "number" \/ op.to.y.t # "number" THEN FALSE
    ELSE IF Falsy(op.tool) \/ (op.tool # Str("brush") /\ op.tool # Str("eraser")) THEN FALSE
    ELSE IF op.lineWidth.t # "number" \/ op.lineWidth.n < 1 \/ op.lineWidth.n > 100 THEN FALSE
    ELSE IF Falsy(op.color) \/ op.color.t # "string" THEN FALSE
    ELSE TRUE

isValidOperation(op) ==
    IF op.t # "object" THEN FALSE
    ELSE IF op.from.t # "object" \/ op.to.t # "object" THEN FALSE
    ELSE IF op.from.x.t # "number" \/ op.from.y.t # "number" THEN FALSE
    ELSE IF op.to.x.t # "number" \/ op.to.y.t # "number" THEN FALSE
    ELSE IF Falsy(op.tool) \/ (op.tool # Str("brush") /\ op.tool # Str("eraser")) THEN FALSE
    ELSE IF op.lineWidth.t # "number" \/ op.lineWidth.n < 1 \/ op.lineWidth.n > 100 THEN FALSE
    ELSE IF op.tool = Str("brush") /\ (Falsy(op.color) \/ op.color.t # "string") THEN FALSE
    ELSE TRUE

CursorData(p) == [t |-> "object", pos |-> p]

isValidCursorData(data) ==
    IF data.t # "object" THEN FALSE
    ELSE IF data.pos.t # "object" THEN FALSE
    ELSE IF data.pos.x.t # "number" \/ data.pos.y.t # "number" THEN FALSE
    ELSE TRUE

(* A room id argument: a string is its sequence of characters. *)
RoomArg(cs) == [isString |-> TRUE, chars |-> cs]
NotAString == [isString |-> FALSE, chars |-> <<>>]

RoomIdChars ==
    {"a","b","c","d","e","f","g","h","i","j","k","l","m",
     "n","o","p","q","r","s","t","u","v","w","x","y","z",
     "A","B","C","D","E","F","G","H","I","J","K","L","M",
     "N","O","P","Q","R","S","T","U","V","W","X","Y","Z",
     "0","1","2","3","4","5","6","7","8","9","-"}

DefaultRoom == <<"d","e","f","a","u","l","t","-","r","o","o","m">>

MaxRoomIdLen == 50

sanitizeRoomId(roomId) ==
    IF ~roomId.isString \/ roomId.chars = <<>> THEN DefaultRoom
    ELSE LET kept == SelectSeq(roomId.chars, LAMBDA c : c \in RoomIdChars)
             cut == SubSeq(kept, 1, IF Len(kept) < MaxRoomIdLen THEN Len(kept) ELSE MaxRoomIdLen)
         IN  IF cut = <<>> THEN DefaultRoom ELSE cut

---------------------------------------------------------------------------
(* JavaScript Maps as functions; a method that mutates and returns is a    *)
(* record of the map after the call, the returned value, and whether the   *)
(* call threw (a throwing call leaves the map as it was when it threw).    *)

Put(m, k, v) == [x \in DOMAIN m \cup {k} |-> IF x = k THEN v ELSE m[x]]
Remove(m, k) == [x \in DOMAIN m \ {k} |-> m[x]]
EmptyMap == [x \in {} |-> 0]

Last(q) == q[Len(q)]
Front(q) == SubSeq(q, 1, Len(q) - 1)

InvalidRoomId(roomId) == roomId = <<>>

---------------------------------------------------------------------------
(* server/drawing-state.js *)

EmptyRoomState == [history |-> <<>>, redoStack |-> <<>>]

getRoomState(st, roomId) ==
    IF InvalidRoomId(roomId) THEN [threw |-> TRUE, states |-> st]
    ELSE IF roomId \notin DOMAIN st
         THEN [threw |-> FALSE, states |-> Put(st, roomId, EmptyRoomState)]
         ELSE [threw |-> FALSE, states |-> st]

getHistory(st, roomId) ==
    LET g == getRoomState(st, roomId)
    IN  IF g.threw THEN [threw |-> TRUE, states |-> g.states, value |-> <<>>]
        ELSE [threw |-> FALSE, states |-> g.states, value |-> g.states[roomId].history]

(* addOperation without the eviction of lines 56-58 *)
addOperation_NoEvict(st, roomId, operation) ==
    IF operation.t # "object" THEN [threw |-> TRUE, states |-> st]
    ELSE LET g == getRoomState(st, roomId)
         IN  IF g.threw THEN g
             ELSE [threw |-> FALSE,
                   states |-> Put(g.states, roomId,
                                  [history |-> Append(g.states[roomId].history, operation),
                                   redoStack |-> <<>>])]

(* addOperation evicting with pop() where the code has shift() *)
addOperation_EvictNewest(st, roomId, operation) ==
    IF operation.t # "object" THEN [threw |-> TRUE, states |-> st]
    ELSE LET g == getRoomState(st, roomId)
         IN  IF g.threw THEN g
             ELSE LET pushed == Append(g.states[roomId].history, operation)
                      kept == IF Len(pushed) > MAX_HISTORY_SIZE THEN Front(pushed) ELSE pushed
                  IN  [threw |-> FALSE,
                       states |-> Put(g.states, roomId, [history |-> kept, redoStack |-> <<>>])]

(* addOperation without line 53: the redo stack survives the append *)
addOperation_KeepRedo(st, roomId, operation) ==
    IF operation.t # "object" THEN [threw |-> TRUE, states |-> st]
    ELSE LET g == getRoomState(st, roomId)
         IN  IF g.threw THEN g
             ELSE LET pushed == Append(g.states[roomId].history, operation)
                      kept == IF Len(pushed) > MAX_HISTORY_SIZE THEN Tail(pushed) ELSE pushed
                  IN  [threw |-> FALSE,
                       states |-> Put(g.states, roomId,
                                      [history |-> kept,
                                       redoStack |-> g.states[roomId].redoStack])]

(* addOperation with unshift for the push of line 52 *)
addOperation_Unshift(st, roomId, operation) ==
    IF operation.t # "object" THEN [threw |-> TRUE, states |-> st]
    ELSE LET g == getRoomState(st, roomId)
         IN  IF g.threw THEN g
             ELSE LET pushed == <<operation>> \o g.states[roomId].history
                      kept == IF Len(pushed) > MAX_HISTORY_SIZE THEN Tail(pushed) ELSE pushed
                  IN  [threw |-> FALSE,
                       states |-> Put(g.states, roomId, [history |-> kept, redoStack |-> <<>>])]

(* addOperation refusing every operation the gateway's shape test refuses *)
addOperation_ShapeChecked(st, roomId, operation) ==
    IF ~isValidOperation(operation) THEN [threw |-> TRUE, states |-> st]
    ELSE LET g == getRoomState(st, roomId)
         IN  IF g.threw THEN g
             ELSE LET pushed == Append(g.states[roomId].history, operation)
                      kept == IF Len(pushed) > MAX_HISTORY_SIZE THEN Tail(pushed) ELSE pushed
                  IN  [threw |-> FALSE,
                       states |-> Put(g.states, roomId, [history |-> kept, redoStack |-> <<>>])]

addOperation(st, roomId, operation) ==
    IF operation.t # "object" THEN [threw |-> TRUE, states |-> st]
    ELSE LET g == getRoomState(st, roomId)
         IN  IF g.threw THEN g
             ELSE LET pushed == Append(g.states[roomId].history, operation)
                      kept == IF Len(pushed) > MAX_HISTORY_SIZE THEN Tail(pushed) ELSE pushed
                  IN  [threw |-> FALSE,
                       states |-> Put(g.states, roomId, [history |-> kept, redoStack |-> <<>>])]

(* undo that pops the history and forgets to push on the redo stack *)
undo_DropsOperation(st, roomId) ==
    LET g == getRoomState(st, roomId)
    IN  IF g.threw THEN [threw |-> TRUE, states |-> g.states, value |-> <<>>]
        ELSE LET state == g.states[roomId]
             IN  IF Len(state.history) = 0
                 THEN [threw |-> FALSE, states |-> g.states, value |-> state.history]
                 ELSE LET after == [history |-> Front(state.history),
                                    redoStack |-> state.redoStack]
                      IN  [threw |-> FALSE, states |-> Put(g.states, roomId, after),
                           value |-> after.history]

(* undo with unshift() where the code has push(): the undone operation goes *)
(* under the redo stack, which redo then drains oldest first               *)
undo_Unshift(st, roomId) ==
    LET g == getRoomState(st, roomId)
    IN  IF g.threw THEN [threw |-> TRUE, states |-> g.states, value |-> <<>>]
        ELSE LET state == g.states[roomId]
             IN  IF Len(state.history) = 0
                 THEN [threw |-> FALSE, states |-> g.states, value |-> state.history]
                 ELSE LET lastOperation == Last(state.history)
                          after == [history |-> Front(state.history),
                                    redoStack |-> <<lastOperation>> \o state.redoStack]
                      IN  [threw |-> FALSE, states |-> Put(g.states, roomId, after),
                           value |-> after.history]

undo(st, roomId) ==
    LET g == getRoomState(st, roomId)
    IN  IF g.threw THEN [threw |-> TRUE, states |-> g.states, value |-> <<>>]
        ELSE LET state == g.states[roomId]
             IN  IF Len(state.history) = 0
                 THEN [threw |-> FALSE, states |-> g.states, value |-> state.history]
                 ELSE LET lastOperation == Last(state.history)
                          after == [history |-> Front(state.history),
                                    redoStack |-> Append(state.redoStack, lastOperation)]
                      IN  [threw |-> FALSE, states |-> Put(g.states, roomId, after),
                           value |-> after.history]

(* redo without the pop(): the operation is pushed on history and stays on *)
(* the redo stack                                                          *)
redo_Peek(st, roomId) ==
    LET g == getRoomState(st, roomId)
    IN  IF g.threw THEN [threw |-> TRUE, states |-> g.states, value |-> <<>>]
        ELSE LET state == g.states[roomId]
             IN  IF Len(state.redoStack) = 0
                 THEN [threw |-> FALSE, states |-> g.states, value |-> state.history]
                 ELSE LET nextOperation == Last(state.redoStack)
                          after == [history |-> Append(state.history, nextOperation),
                                    redoStack |-> state.redoStack]
                      IN  [threw |-> FALSE, states |-> Put(g.states, roomId, after),
                           value |-> after.history]

(* redo with unshift() where the code has push(): the operation returns to the head *)
redo_ToHead(st, roomId) ==
    LET g == getRoomState(st, roomId)
    IN  IF g.threw THEN [threw |-> TRUE, states |-> g.states, value |-> <<>>]
        ELSE LET state == g.states[roomId]
             IN  IF Len(state.redoStack) = 0
                 THEN [threw |-> FALSE, states |-> g.states, value |-> state.history]
                 ELSE LET nextOperation == Last(state.redoStack)
                          after == [history |-> <<nextOperation>> \o state.history,
                                    redoStack |-> Front(state.redoStack)]
                      IN  [threw |-> FALSE, states |-> Put(g.states, roomId, after),
                           value |-> after.history]

redo(st, roomId) ==
    LET g == getRoomState(st, roomId)
    IN  IF g.threw THEN [threw |-> TRUE, states |-> g.states, value |-> <<>>]
        ELSE LET state == g.states[roomId]
             IN  IF Len(state.redoStack) = 0
                 THEN [threw |-> FALSE, states |-> g.states, value |-> state.history]
                 ELSE LET nextOperation == Last(state.redoStack)
                          after == [history |-> Append(state.history, nextOperation),
                                    redoStack |-> Front(state.redoStack)]
                      IN  [threw |-> FALSE, states |-> Put(g.states, roomId, after),
                           value |-> after.history]

canUndo(st, roomId) ==
    LET g == getRoomState(st, roomId)
    IN  IF g.threw THEN [threw |-> TRUE, states |-> g.states, value |-> FALSE]
        ELSE [threw |-> FALSE, states |-> g.states,
              value |-> Len(g.states[roomId].history) > 0]

(* canRedo reading the history instead of the redo stack *)
canRedo_ReadsHistory(st, roomId) ==
    LET g == getRoomState(st, roomId)
    IN  IF g.threw THEN [threw |-> TRUE, states |-> g.states, value |-> FALSE]
        ELSE [threw |-> FALSE, states |-> g.states,
              value |-> Len(g.states[roomId].history) > 0]

canRedo(st, roomId) ==
    LET g == getRoomState(st, roomId)
    IN  IF g.threw THEN [threw |-> TRUE, states |-> g.states, value |-> FALSE]
        ELSE [threw |-> FALSE, states |-> g.states,
              value |-> Len(g.states[roomId].redoStack) > 0]

(* clear emptying every room's history and redo stack *)
clear_Everywhere(st, roomId) ==
    LET g == getRoomState(st, roomId)
    IN  IF g.threw THEN [threw |-> TRUE, states |-> g.states]
        ELSE [threw |-> FALSE,
              states |-> [room \in DOMAIN g.states |-> [history |-> <<>>, redoStack |-> <<>>]]]

(* clear without line 122: the redo stack survives *)
clear_KeepRedo(st, roomId) ==
    LET g == getRoomState(st, roomId)
    IN  IF g.threw THEN g
        ELSE [threw |-> FALSE,
              states |-> Put(g.states, roomId,
                             [history |-> <<>>, redoStack |-> g.states[roomId].redoStack])]

clear(st, roomId) ==
    LET g == getRoomState(st, roomId)
    IN  IF g.threw THEN g
        ELSE [threw |-> FALSE, states |-> Put(g.states, roomId, EmptyRoomState)]

deleteRoom(st, roomId) == Remove(st, roomId)

---------------------------------------------------------------------------
(* server/rooms.js *)

InvalidUserId(userId) == userId = ""

getRoom(rm, roomId) ==
    IF InvalidRoomId(roomId) THEN [threw |-> TRUE, rooms |-> rm]
    ELSE IF roomId \notin DOMAIN rm
         THEN [threw |-> FALSE, rooms |-> Put(rm, roomId, <<>>)]
         ELSE [threw |-> FALSE, rooms |-> rm]

RoomHas(room, userId) == \E i \in 1..Len(room) : room[i].id = userId
RoomGet(room, userId) == room[CHOOSE i \in 1..Len(room) : room[i].id = userId]

getUsers(rm, roomId) ==
    LET g == getRoom(rm, roomId)
    IN  IF g.threw THEN [threw |-> TRUE, rooms |-> g.rooms, value |-> <<>>]
        ELSE [threw |-> FALSE, rooms |-> g.rooms,
              value |-> [i \in 1..Len(g.rooms[roomId]) |->
                            [id |-> g.rooms[roomId][i].id, color |-> g.rooms[roomId][i].color]]]

(* addUser without the lookup of lines 45-47: a member who joins again is  *)
(* given the colour of the next free place                                 *)
addUser_Reassign(rm, roomId, userId) ==
    IF InvalidUserId(userId)
    THEN [threw |-> TRUE, rooms |-> rm, color |-> NoColor, users |-> <<>>]
    ELSE LET g == getRoom(rm, roomId)
         IN  IF g.threw
             THEN [threw |-> TRUE, rooms |-> g.rooms, color |-> NoColor, users |-> <<>>]
             ELSE LET room == g.rooms[roomId]
                      color == USER_COLORS[(Len(room) % Len(USER_COLORS)) + 1]
                      set == IF RoomHas(room, userId)
                             THEN [i \in 1..Len(room) |->
                                      IF room[i].id = userId
                                      THEN [id |-> userId, color |-> color] ELSE room[i]]
                             ELSE Append(room, [id |-> userId, color |-> color])
                      added == Put(g.rooms, roomId, set)
                  IN  [threw |-> FALSE, rooms |-> added, color |-> color,
                       users |-> getUsers(added, roomId).value]

(* addUser keeping track of the colours in use: a newcomer is given the    *)
(* first palette entry no member holds, the positional one if all are held *)
addUser_FirstFree(rm, roomId, userId) ==
    IF InvalidUserId(userId)
    THEN [threw |-> TRUE, rooms |-> rm, color |-> NoColor, users |-> <<>>]
    ELSE LET g == getRoom(rm, roomId)
         IN  IF g.threw
             THEN [threw |-> TRUE, rooms |-> g.rooms, color |-> NoColor, users |-> <<>>]
             ELSE LET room == g.rooms[roomId]
                  IN  IF RoomHas(room, userId)
                      THEN [threw |-> FALSE, rooms |-> g.rooms,
                            color |-> RoomGet(room, userId).color,
                            users |-> getUsers(g.rooms, roomId).value]
                      ELSE LET free == {i \in 1..Len(USER_COLORS) :
                                           \A k \in 1..Len(room) : room[k].color # USER_COLORS[i]}
                               color == IF free = {}
                                        THEN USER_COLORS[(Len(room) % Len(USER_COLORS)) + 1]
                                        ELSE USER_COLORS[CHOOSE i \in free : \A j \in free : i <= j]
                               added == Put(g.rooms, roomId,
                                            Append(room, [id |-> userId, color |-> color]))
                           IN  [threw |-> FALSE, rooms |-> added, color |-> color,
                                users |-> getUsers(added, roomId).value]

(* addUser indexing the palette with the size after the insertion *)
addUser_OffByOne(rm, roomId, userId) ==
    IF InvalidUserId(userId)
    THEN [threw |-> TRUE, rooms |-> rm, color |-> NoColor, users |-> <<>>]
    ELSE LET g == getRoom(rm, roomId)
         IN  IF g.threw
             THEN [threw |-> TRUE, rooms |-> g.rooms, color |-> NoColor, users |-> <<>>]
             ELSE LET room == g.rooms[roomId]
                  IN  IF RoomHas(room, userId)
                      THEN [threw |-> FALSE, rooms |-> g.rooms,
                            color |-> RoomGet(room, userId).color,
                            users |-> getUsers(g.rooms, roomId).value]
                      ELSE LET color == USER_COLORS[((Len(room) + 1) % Len(USER_COLORS)) + 1]
                               added == Put(g.rooms, roomId,
                                            Append(room, [id |-> userId, color |-> color]))
                           IN  [threw |-> FALSE, rooms |-> added, color |-> color,
                                users |-> getUsers(added, roomId).value]

addUser(rm, roomId, userId) ==
    IF InvalidUserId(userId)
    THEN [threw |-> TRUE, rooms |-> rm, color |-> NoColor, users |-> <<>>]
    ELSE LET g == getRoom(rm, roomId)
         IN  IF g.threw
             THEN [threw |-> TRUE, rooms |-> g.rooms, color |-> NoColor, users |-> <<>>]
             ELSE LET room == g.rooms[roomId]
                  IN  IF RoomHas(room, userId)
                      THEN [threw |-> FALSE, rooms |-> g.rooms,
                            color |-> RoomGet(room, userId).color,
                            users |-> getUsers(g.rooms, roomId).value]
                      ELSE LET color == USER_COLORS[(Len(room) % Len(USER_COLORS)) + 1]
                               added == Put(g.rooms, roomId,
                                            Append(room, [id |-> userId, color |-> color]))
                           IN  [threw |-> FALSE, rooms |-> added, color |-> color,
                                users |-> getUsers(added, roomId).value]

(* removeUser without the clean-up of lines 65-67 *)
removeUser_KeepEmpty(rm, roomId, userId) ==
    LET g == getRoom(rm, roomId)
    IN  IF g.threw THEN g
        ELSE [threw |-> FALSE,
              rooms |-> Put(g.rooms, roomId,
                            SelectSeq(g.rooms[roomId], LAMBDA u : u.id # userId))]

removeUser(rm, roomId, userId) ==
    LET g == getRoom(rm, roomId)
    IN  IF g.threw THEN g
        ELSE LET room == SelectSeq(g.rooms[roomId], LAMBDA u : u.id # userId)
             IN  IF Len(room) = 0
                 THEN [threw |-> FALSE, rooms |-> Remove(g.rooms, roomId)]
                 ELSE [threw |-> FALSE, rooms |-> Put(g.rooms, roomId, room)]

getUserCount(rm, roomId) ==
    IF roomId \notin DOMAIN rm THEN 0 ELSE Len(rm[roomId])

hasUser(rm, roomId, userId) ==
    IF roomId \notin DOMAIN rm THEN FALSE ELSE RoomHas(rm[roomId], userId)

getRoomIds(rm) == DOMAIN rm

---------------------------------------------------------------------------
(* Inputs the clients send. *)

Op1 == Operation(Point(Num(0), Num(0)), Point(Num(1), Num(1)), Str("brush"), Num(5), Str("#000000"))
Op2 == Operation(Point(Num(1), Num(1)), Point(Num(2), Num(0)), Str("eraser"), Num(10), Undefined)
OpTooWide == Operation(Point(Num(0), Num(0)), Point(Num(1), Num(1)), Str("brush"), Num(500), Str("#000000"))

(* a stroke only the given socket draws: its line width is the socket's number *)
OwnStroke(s) ==
    Operation(Point(Num(0), Num(0)), Point(Num(2), Num(2)), Str("brush"),
              Num(CHOOSE i \in 1..Len(SessionIds) : SessionIds[i] = s), Str("#112233"))

DrawInputs == {Op1, Op2, OpTooWide}
CursorInputs == {CursorData(Point(Num(3), Num(4))), CursorData(NoPoint)}

(* client/canvas.js joins 'default-room'; other clients may name any room *)
ClientRoom == RoomArg(DefaultRoom)
RoomInputs == {ClientRoom, RoomArg(<<"r", " ", "1">>)}

---------------------------------------------------------------------------
(* Messages to clients and the record of the inbound message handled. *)

Msg(type, to) ==
    [type |-> type, to |-> to, op |-> NoOperation, history |-> <<>>,
     canUndo |-> FALSE, canRedo |-> FALSE, id |-> "", color |-> NoColor,
     users |-> <<>>, pos |-> NoPoint]

Event(type, sender, room) ==
    [type |-> type, sender |-> sender, room |-> room, op |-> NoOperation,
     roomArg |-> NotAString, data |-> CursorData(NoPoint)]

NoEvent == Event("none", "", NULL)

(* io.to(room): every socket socket.join put in the room *)
InRoom(sr, room) == {t \in AllSessions : room \in sr[t]}

UndoRedoState(to, cu, cr) == [Msg("UNDO_REDO_STATE", to) EXCEPT !.canUndo = cu, !.canRedo = cr]
DrawHistory(to, history) == [Msg("DRAW_HISTORY", to) EXCEPT !.history = history]

(* a direct call: whether it threw, the boolean, colour or list it       *)
(* returned, and the registry as it was when the call was made             *)
NoReturn ==
    [threw |-> FALSE, ok |-> FALSE, color |-> NoColor, users |-> <<>>,
     registry |-> EmptyMap]

(* The connection of each modelled browser delivers in order: the message *)
(* handled leaves the head of the sender's queue to the server, and every  *)
(* emit joins the queue to each browser it is addressed to.                *)
Transport(cl, ev, out) ==
    [c \in DOMAIN cl |->
        [cl[c] EXCEPT !.up = IF c = ev.sender /\ @ # <<>> THEN Tail(@) ELSE @,
                      !.down = @ \o SelectSeq(out, LAMBDA m : c \in m.to)]]

(* what every step records beside the handler's own effect *)
Handled(ev, out) ==
    /\ lastEvent' = ev
    /\ pre' = roomStates
    /\ outbox' = out
    /\ ret' = NoReturn
    /\ clients' = Transport(clients, ev, out)

---------------------------------------------------------------------------
(* a room's drawing state; a room without an entry reads as the empty state *)
StateOf(st, room) == IF room \in DOMAIN st THEN st[room] ELSE EmptyRoomState

(* server/server.js: one action per socket handler *)

Init ==
    /\ roomStates = EmptyMap
    /\ rooms = EmptyMap
    /\ currentRoom = [s \in AllSessions |-> NULL]
    /\ userColor = [s \in AllSessions |-> NoColor]
    /\ socketRooms = [s \in AllSessions |-> {}]
    /\ connected = [s \in AllSessions |-> TRUE]
    /\ lastEvent = NoEvent
    /\ pre = EmptyMap
    /\ outbox = <<>>
    /\ ret = NoReturn
    /\ clients = EmptyMap

(* a JOIN_ROOM announcing the newcomer with io.to instead of socket.broadcast.to *)
JOIN_ROOM_NotifyAll(s, roomId) ==
    /\ connected[s]
    /\ LET room == sanitizeRoomId(roomId)
           joined == [socketRooms EXCEPT ![s] = @ \cup {room}]
           a == addUser(rooms, room, s)
           h == getHistory(roomStates, room)
           cu == canUndo(h.states, room)
           cr == canRedo(cu.states, room)
           ev == [Event("JOIN_ROOM", s, room) EXCEPT !.roomArg = roomId]
           error == Msg("ERROR", {s})
           userInit == [Msg("USER_INIT", {s}) EXCEPT !.id = s, !.color = a.color, !.users = a.users]
           userJoined == [Msg("USER_JOINED", InRoom(joined, room)) EXCEPT !.id = s, !.color = a.color]
       IN  /\ currentRoom' = [currentRoom EXCEPT ![s] = room]
           /\ socketRooms' = joined
           /\ UNCHANGED connected
           /\ rooms' = a.rooms
           /\ IF a.threw
              THEN /\ UNCHANGED <<userColor, roomStates>>
                   /\ Handled(ev, <<error>>)
              ELSE /\ userColor' = [userColor EXCEPT ![s] = a.color]
                   /\ IF h.threw
                      THEN /\ roomStates' = h.states
                           /\ Handled(ev, <<userInit, error>>)
                      ELSE IF cu.threw \/ cr.threw
                      THEN /\ roomStates' = cr.states
                           /\ Handled(ev, <<userInit, DrawHistory({s}, h.value), error>>)
                      ELSE /\ roomStates' = cr.states
                           /\ Handled(ev, <<userInit, DrawHistory({s}, h.value),
                                            UndoRedoState({s}, cu.value, cr.value), userJoined>>)

JOIN_ROOM(s, roomId) ==
    /\ connected[s]
    /\ LET room == sanitizeRoomId(roomId)
           joined == [socketRooms EXCEPT ![s] = @ \cup {room}]
           a == addUser(rooms, room, s)
           h == getHistory(roomStates, room)
           cu == canUndo(h.states, room)
           cr == canRedo(cu.states, room)
           ev == [Event("JOIN_ROOM", s, room) EXCEPT !.roomArg = roomId]
           error == Msg("ERROR", {s})
           userInit == [Msg("USER_INIT", {s}) EXCEPT !.id = s, !.color = a.color, !.users = a.users]
           userJoined == [Msg("USER_JOINED", InRoom(joined, room) \ {s}) EXCEPT !.id = s, !.color = a.color]
       IN  /\ currentRoom' = [currentRoom EXCEPT ![s] = room]
           /\ socketRooms' = joined
           /\ UNCHANGED connected
           /\ rooms' = a.rooms
           /\ IF a.threw
              THEN /\ UNCHANGED <<userColor, roomStates>>
                   /\ Handled(ev, <<error>>)
              ELSE /\ userColor' = [userColor EXCEPT ![s] = a.color]
                   /\ IF h.threw
                      THEN /\ roomStates' = h.states
                           /\ Handled(ev, <<userInit, error>>)
                      ELSE IF cu.threw \/ cr.threw
                      THEN /\ roomStates' = cr.states
                           /\ Handled(ev, <<userInit, DrawHistory({s}, h.value), error>>)
                      ELSE /\ roomStates' = cr.states
                           /\ Handled(ev, <<userInit, DrawHistory({s}, h.value),
                                            UndoRedoState({s}, cu.value, cr.value), userJoined>>)

(* JOIN_ROOM when a statement of its try block raises: the statements      *)
(* before it have run, the catch block of lines 125-128 emits ERROR.       *)
(* No message a client can send makes sanitizeRoomId, addUser, getHistory, *)
(* canUndo or canRedo throw here (the room id is a non-empty string, the   *)
(* socket id a string), so the exception is the environment's: socket.join *)
(* of line 95, the call of line 98, or the emit of line 104.               *)
JoinSteps == {"socket.join", "addUser", "emit"}

JOIN_ROOM_catch(s, roomId, step) ==
    /\ connected[s]
    /\ LET room == sanitizeRoomId(roomId)
           joined == [socketRooms EXCEPT ![s] = @ \cup {room}]
           a == addUser(rooms, room, s)
           ev == [Event("JOIN_ROOM", s, room) EXCEPT !.roomArg = roomId]
           error == Msg("ERROR", {s})
       IN  /\ currentRoom' = [currentRoom EXCEPT ![s] = room]
           /\ socketRooms' = IF step = "socket.join" THEN socketRooms ELSE joined
           /\ rooms' = IF step = "emit" THEN a.rooms ELSE rooms
           /\ userColor' = IF step = "emit" /\ ~a.threw
                            THEN [userColor EXCEPT ![s] = a.color] ELSE userColor
           /\ UNCHANGED <<connected, roomStates>>
           /\ Handled(ev, <<error>>)

(* a DRAW emitted with io.to instead of socket.broadcast.to at line 149 *)
DRAW_EchoToSender(s, data) ==
    /\ connected[s]
    /\ LET room == currentRoom[s]
           a == addOperation(roomStates, room, data)
           cu == canUndo(a.states, room)
           cr == canRedo(cu.states, room)
           ev == [Event("DRAW", s, room) EXCEPT !.op = data]
           draw == [Msg("DRAW", InRoom(socketRooms, room)) EXCEPT !.op = data]
       IN  /\ UNCHANGED <<rooms, currentRoom, userColor, socketRooms, connected>>
           /\ IF room = NULL THEN UNCHANGED roomStates /\ Handled(ev, <<>>)
              ELSE IF ~isValidOperation(data) THEN UNCHANGED roomStates /\ Handled(ev, <<>>)
              ELSE IF a.threw THEN roomStates' = a.states /\ Handled(ev, <<>>)
              ELSE /\ roomStates' = cr.states
                   /\ Handled(ev, <<draw, UndoRedoState(InRoom(socketRooms, room), cu.value, cr.value)>>)

(* a DRAW that falls back to 'default-room' when the socket has joined no room *)
DRAW_DefaultRoom(s, data) ==
    /\ connected[s]
    /\ LET room == IF currentRoom[s] = NULL THEN DefaultRoom ELSE currentRoom[s]
           a == addOperation(roomStates, room, data)
           cu == canUndo(a.states, room)
           cr == canRedo(cu.states, room)
           ev == [Event("DRAW", s, currentRoom[s]) EXCEPT !.op = data]
           draw == [Msg("DRAW", InRoom(socketRooms, room) \ {s}) EXCEPT !.op = data]
       IN  /\ UNCHANGED <<rooms, currentRoom, userColor, socketRooms, connected>>
           /\ IF ~isValidOperation(data) THEN UNCHANGED roomStates /\ Handled(ev, <<>>)
              ELSE IF a.threw THEN roomStates' = a.states /\ Handled(ev, <<>>)
              ELSE /\ roomStates' = cr.states
                   /\ Handled(ev, <<draw, UndoRedoState(InRoom(socketRooms, room), cu.value, cr.value)>>)

DRAW(s, data) ==
    /\ connected[s]
    /\ LET room == currentRoom[s]
           a == addOperation(roomStates, room, data)
           cu == canUndo(a.states, room)
           cr == canRedo(cu.states, room)
           ev == [Event("DRAW", s, room) EXCEPT !.op = data]
           draw == [Msg("DRAW", InRoom(socketRooms, room) \ {s}) EXCEPT !.op = data]
       IN  /\ UNCHANGED <<rooms, currentRoom, userColor, socketRooms, connected>>
           /\ IF room = NULL THEN UNCHANGED roomStates /\ Handled(ev, <<>>)
              ELSE IF ~isValidOperation(data) THEN UNCHANGED roomStates /\ Handled(ev, <<>>)
              ELSE IF a.threw THEN roomStates' = a.states /\ Handled(ev, <<>>)
              ELSE /\ roomStates' = cr.states
                   /\ Handled(ev, <<draw, UndoRedoState(InRoom(socketRooms, room), cu.value, cr.value)>>)

CURSOR_MOVE(s, data) ==
    /\ connected[s]
    /\ LET room == currentRoom[s]
           ev == [Event("CURSOR_MOVE", s, room) EXCEPT !.data = data]
           cursor == [Msg("CURSOR_MOVE", InRoom(socketRooms, room) \ {s})
                         EXCEPT !.id = s, !.pos = data.pos, !.color = userColor[s]]
       IN  /\ UNCHANGED <<roomStates, rooms, currentRoom, userColor, socketRooms, connected>>
           /\ IF room = NULL THEN Handled(ev, <<>>)
              ELSE IF ~isValidCursorData(data) THEN Handled(ev, <<>>)
              ELSE Handled(ev, <<cursor>>)

(* a per-user undo: only the socket that drew the last operation may take it back *)
UNDO_OwnOnly(s) ==
    /\ connected[s]
    /\ LET room == currentRoom[s]
           mine == /\ room \in DOMAIN roomStates
                   /\ roomStates[room].history # <<>>
                   /\ Last(roomStates[room].history) = OwnStroke(s)
           u == IF mine THEN undo(roomStates, room) ELSE getHistory(roomStates, room)
           cu == canUndo(u.states, room)
           cr == canRedo(cu.states, room)
           ev == Event("UNDO", s, room)
           all == InRoom(socketRooms, room)
       IN  /\ UNCHANGED <<rooms, currentRoom, userColor, socketRooms, connected>>
           /\ IF room = NULL THEN UNCHANGED roomStates /\ Handled(ev, <<>>)
              ELSE IF u.threw THEN roomStates' = u.states /\ Handled(ev, <<>>)
              ELSE /\ roomStates' = cr.states
                   /\ Handled(ev, <<DrawHistory(all, u.value), UndoRedoState(all, cu.value, cr.value)>>)

UNDO(s) ==
    /\ connected[s]
    /\ LET room == currentRoom[s]
           u == undo(roomStates, room)
           cu == canUndo(u.states, room)
           cr == canRedo(cu.states, room)
           ev == Event("UNDO", s, room)
           all == InRoom(socketRooms, room)
       IN  /\ UNCHANGED <<rooms, currentRoom, userColor, socketRooms, connected>>
           /\ IF room = NULL THEN UNCHANGED roomStates /\ Handled(ev, <<>>)
              ELSE IF u.threw THEN roomStates' = u.states /\ Handled(ev, <<>>)
              ELSE /\ roomStates' = cr.states
                   /\ Handled(ev, <<DrawHistory(all, u.value), UndoRedoState(all, cu.value, cr.value)>>)

(* a REDO that emits nothing when the redo stack is empty *)
REDO_SilentNoOp(s) ==
    /\ connected[s]
    /\ LET room == currentRoom[s]
           r == redo(roomStates, room)
           cu == canUndo(r.states, room)
           cr == canRedo(cu.states, room)
           ev == Event("REDO", s, room)
           all == InRoom(socketRooms, room)
       IN  /\ UNCHANGED <<rooms, currentRoom, userColor, socketRooms, connected>>
           /\ IF room = NULL THEN UNCHANGED roomStates /\ Handled(ev, <<>>)
              ELSE IF r.threw THEN roomStates' = r.states /\ Handled(ev, <<>>)
              ELSE IF StateOf(roomStates, room).redoStack = <<>>
              THEN roomStates' = cr.states /\ Handled(ev, <<>>)
              ELSE /\ roomStates' = cr.states
                   /\ Handled(ev, <<DrawHistory(all, r.value), UndoRedoState(all, cu.value, cr.value)>>)

REDO(s) ==
    /\ connected[s]
    /\ LET room == currentRoom[s]
           r == redo(roomStates, room)
           cu == canUndo(r.states, room)
           cr == canRedo(cu.states, room)
           ev == Event("REDO", s, room)
           all == InRoom(socketRooms, room)
       IN  /\ UNCHANGED <<rooms, currentRoom, userColor, socketRooms, connected>>
           /\ IF room = NULL THEN UNCHANGED roomStates /\ Handled(ev, <<>>)
              ELSE IF r.threw THEN roomStates' = r.states /\ Handled(ev, <<>>)
              ELSE /\ roomStates' = cr.states
                   /\ Handled(ev, <<DrawHistory(all, r.value), UndoRedoState(all, cu.value, cr.value)>>)

CLEAR(s) ==
    /\ connected[s]
    /\ LET room == currentRoom[s]
           c == clear(roomStates, room)
           ev == Event("CLEAR", s, room)
           all == InRoom(socketRooms, room)
       IN  /\ UNCHANGED <<rooms, currentRoom, userColor, socketRooms, connected>>
           /\ IF room = NULL THEN UNCHANGED roomStates /\ Handled(ev, <<>>)
              ELSE IF c.threw THEN roomStates' = c.states /\ Handled(ev, <<>>)
              ELSE /\ roomStates' = c.states
                   /\ Handled(ev, <<Msg("CLEAR", all), UndoRedoState(all, FALSE, FALSE)>>)

(* a REQUEST_HISTORY answered with io.to(currentRoom) instead of socket.emit *)
REQUEST_HISTORY_ToRoom(s) ==
    /\ connected[s]
    /\ LET room == currentRoom[s]
           h == getHistory(roomStates, room)
           cu == canUndo(h.states, room)
           cr == canRedo(cu.states, room)
           ev == Event("REQUEST_HISTORY", s, room)
       IN  /\ UNCHANGED <<rooms, currentRoom, userColor, socketRooms, connected>>
           /\ IF room = NULL THEN UNCHANGED roomStates /\ Handled(ev, <<>>)
              ELSE IF h.threw THEN roomStates' = h.states /\ Handled(ev, <<>>)
              ELSE /\ roomStates' = cr.states
                   /\ Handled(ev, <<DrawHistory(InRoom(socketRooms, room), h.value),
                                    UndoRedoState(InRoom(socketRooms, room), cu.value, cr.value)>>)

REQUEST_HISTORY(s) ==
    /\ connected[s]
    /\ LET room == currentRoom[s]
           h == getHistory(roomStates, room)
           cu == canUndo(h.states, room)
           cr == canRedo(cu.states, room)
           ev == Event("REQUEST_HISTORY", s, room)
       IN  /\ UNCHANGED <<rooms, currentRoom, userColor, socketRooms, connected>>
           /\ IF room = NULL THEN UNCHANGED roomStates /\ Handled(ev, <<>>)
              ELSE IF h.threw THEN roomStates' = h.states /\ Handled(ev, <<>>)
              ELSE /\ roomStates' = cr.states
                   /\ Handled(ev, <<DrawHistory({s}, h.value), UndoRedoState({s}, cu.value, cr.value)>>)

(* a disconnect that deletes the room's drawing state whoever is left *)
disconnect_AlwaysDispose(s) ==
    /\ connected[s]
    /\ LET room == currentRoom[s]
           left == [socketRooms EXCEPT ![s] = {}]
           r == removeUser(rooms, room, s)
           ev == Event("disconnect", s, room)
           userLeft == [Msg("USER_LEFT", InRoom(left, room)) EXCEPT !.id = s]
       IN  /\ connected' = [connected EXCEPT ![s] = FALSE]
           /\ socketRooms' = left
           /\ UNCHANGED <<currentRoom, userColor>>
           /\ IF room = NULL THEN UNCHANGED <<rooms, roomStates>> /\ Handled(ev, <<>>)
              ELSE IF r.threw THEN rooms' = r.rooms /\ UNCHANGED roomStates /\ Handled(ev, <<>>)
              ELSE /\ rooms' = r.rooms
                   /\ roomStates' = deleteRoom(roomStates, room)
                   /\ Handled(ev, <<userLeft>>)

(* socket.io takes a closing socket out of its rooms before the handler runs *)
disconnect(s) ==
    /\ connected[s]
    /\ LET room == currentRoom[s]
           left == [socketRooms EXCEPT ![s] = {}]
           r == removeUser(rooms, room, s)
           ev == Event("disconnect", s, room)
           userLeft == [Msg("USER_LEFT", InRoom(left, room)) EXCEPT !.id = s]
       IN  /\ connected' = [connected EXCEPT ![s] = FALSE]
           /\ socketRooms' = left
           /\ UNCHANGED <<currentRoom, userColor>>
           /\ IF room = NULL THEN UNCHANGED <<rooms, roomStates>> /\ Handled(ev, <<>>)
              ELSE IF r.threw THEN rooms' = r.rooms /\ UNCHANGED roomStates /\ Handled(ev, <<>>)
              ELSE /\ rooms' = r.rooms
                   /\ roomStates' = IF getUserCount(r.rooms, room) = 0
                                    THEN deleteRoom(roomStates, room)
                                    ELSE roomStates
                   /\ Handled(ev, <<userLeft>>)

(* The shipped client: every socket joins 'default-room'. *)
Next ==
    \/ \E s \in Sessions : JOIN_ROOM(s, ClientRoom)
    \/ \E s \in Sessions, data \in DrawInputs : DRAW(s, data)
    \/ \E s \in Sessions, data \in CursorInputs : CURSOR_MOVE(s, data)
    \/ \E s \in Sessions : UNDO(s)
    \/ \E s \in Sessions : REDO(s)
    \/ \E s \in Sessions : CLEAR(s)
    \/ \E s \in Sessions : REQUEST_HISTORY(s)
    \/ \E s \in Sessions : disconnect(s)

Spec == Init /\ [][Next]_vars

(* Clients that name their room, and may join again under another name. *)
NextRooms ==
    \/ \E s \in Sessions, roomId \in RoomInputs : JOIN_ROOM(s, roomId)
    \/ \E s \in Sessions, data \in {Op1, OpTooWide} : DRAW(s, data)
    \/ \E s \in Sessions, data \in CursorInputs : CURSOR_MOVE(s, data)
    \/ \E s \in Sessions : UNDO(s)
    \/ \E s \in Sessions : REDO(s)
    \/ \E s \in Sessions : CLEAR(s)
    \/ \E s \in Sessions : REQUEST_HISTORY(s)
    \/ \E s \in Sessions : disconnect(s)

SpecRooms == Init /\ [][NextRooms]_vars

(* Every client draws strokes of its own, so a stroke names who drew it. *)
NextOwn ==
    \/ \E s \in Sessions : JOIN_ROOM(s, ClientRoom)
    \/ \E s \in Sessions : DRAW(s, OwnStroke(s))
    \/ \E s \in Sessions : UNDO(s)
    \/ \E s \in Sessions : REDO(s)
    \/ \E s \in Sessions : CLEAR(s)
    \/ \E s \in Sessions : disconnect(s)

SpecOwn == Init /\ [][NextOwn]_vars

(* More sockets than palette entries, none of which draws. *)
NextJoin ==
    \/ \E s \in Members : JOIN_ROOM(s, ClientRoom)
    \/ \E s \in Members : disconnect(s)

SpecJoin == Init /\ [][NextJoin]_vars

(* client/canvas.js: the browsers of the sockets in Sessions.  Each has    *)
(* connected and emitted JOIN_ROOM 'default-room' (line 579); it draws     *)
(* strokes of its own, and sends UNDO, REDO and CLEAR.                     *)
Sent(type) == [type |-> type, op |-> NoOperation]

Browser ==
    [canvas |-> <<>>, up |-> <<Sent("JOIN_ROOM")>>, down |-> <<>>, sent |-> 0]

InitSync ==
    /\ roomStates = EmptyMap
    /\ rooms = EmptyMap
    /\ currentRoom = [s \in AllSessions |-> NULL]
    /\ userColor = [s \in AllSessions |-> NoColor]
    /\ socketRooms = [s \in AllSessions |-> {}]
    /\ connected = [s \in AllSessions |-> TRUE]
    /\ lastEvent = NoEvent
    /\ pre = EmptyMap
    /\ outbox = <<>>
    /\ ret = NoReturn
    /\ clients = [c \in Sessions |-> Browser]

(* _onMouseMove: draw the stroke on the own canvas, then send it *)
onMouseMove(c) ==
    /\ clients[c].sent < MaxSends
    /\ clients' = [clients EXCEPT ![c].canvas = Append(@, OwnStroke(c)),
                                  ![c].up = Append(@, [Sent("DRAW") EXCEPT !.op = OwnStroke(c)]),
                                  ![c].sent = @ + 1]
    /\ UNCHANGED <<roomStates, rooms, currentRoom, userColor, socketRooms, connected,
                   lastEvent, pre, outbox, ret>>

sendUndo(c) ==
    /\ clients[c].sent < MaxSends
    /\ clients' = [clients EXCEPT ![c].up = Append(@, Sent("UNDO")), ![c].sent = @ + 1]
    /\ UNCHANGED <<roomStates, rooms, currentRoom, userColor, socketRooms, connected,
                   lastEvent, pre, outbox, ret>>

sendRedo(c) ==
    /\ clients[c].sent < MaxSends
    /\ clients' = [clients EXCEPT ![c].up = Append(@, Sent("REDO")), ![c].sent = @ + 1]
    /\ UNCHANGED <<roomStates, rooms, currentRoom, userColor, socketRooms, connected,
                   lastEvent, pre, outbox, ret>>

sendClear(c) ==
    /\ clients[c].sent < MaxSends
    /\ clients' = [clients EXCEPT ![c].up = Append(@, Sent("CLEAR")), ![c].sent = @ + 1]
    /\ UNCHANGED <<roomStates, rooms, currentRoom, userColor, socketRooms, connected,
                   lastEvent, pre, outbox, ret>>

(* the socket listeners of lines 630-648: DRAW_HISTORY redraws all, DRAW   *)
(* draws one stroke, CLEAR wipes the canvas; the others do not draw        *)
Receive(c) ==
    /\ clients[c].down # <<>>
    /\ LET m == Head(clients[c].down)
           drawn == IF m.type = "DRAW_HISTORY" THEN m.history
                    ELSE IF m.type = "DRAW" THEN Append(clients[c].canvas, m.op)
                    ELSE IF m.type = "CLEAR" THEN <<>>
                    ELSE clients[c].canvas
       IN  clients' = [clients EXCEPT ![c].canvas = drawn, ![c].down = Tail(@)]
    /\ UNCHANGED <<roomStates, rooms, currentRoom, userColor, socketRooms, connected,
                   lastEvent, pre, outbox, ret>>

(* the next message of the socket's connection is of the given type *)
Inbound(s, type) == clients[s].up # <<>> /\ Head(clients[s].up).type = type

NextSync ==
    \/ \E c \in Sessions : onMouseMove(c)
    \/ \E c \in Sessions : sendUndo(c)
    \/ \E c \in Sessions : sendRedo(c)
    \/ \E c \in Sessions : sendClear(c)
    \/ \E c \in Sessions : Receive(c)
    \/ \E s \in Sessions : Inbound(s, "JOIN_ROOM") /\ JOIN_ROOM(s, ClientRoom)
    \/ \E s \in Sessions : Inbound(s, "DRAW") /\ DRAW(s, Head(clients[s].up).op)
    \/ \E s \in Sessions : Inbound(s, "UNDO") /\ UNDO(s)
    \/ \E s \in Sessions : Inbound(s, "REDO") /\ REDO(s)
    \/ \E s \in Sessions : Inbound(s, "CLEAR") /\ CLEAR(s)

SpecSync == InitSync /\ [][NextSync]_vars

(* Browsers that only draw: _onMouseMove makes each stroke start where the *)
(* last one ended (from: this.lastPos, lines 150-151 and 167), so the k-th *)
(* stroke of a browser runs from k-1 to k.  What the server emits waits in *)
(* the browsers' queues: their listeners do not bear on the history.       *)
Stroke(c, k) ==
    Operation(Point(Num(k - 1), Num(0)), Point(Num(k), Num(0)), Str("brush"),
              Num(CHOOSE i \in 1..Len(SessionIds) : SessionIds[i] = c), Str("#112233"))

onMouseMoveTo(c) ==
    /\ clients[c].sent < MaxStrokes
    /\ LET operation == Stroke(c, clients[c].sent + 1)
       IN  clients' = [clients EXCEPT ![c].canvas = Append(@, operation),
                                     ![c].up = Append(@, [Sent("DRAW") EXCEPT !.op = operation]),
                                     ![c].sent = @ + 1]
    /\ UNCHANGED <<roomStates, rooms, currentRoom, userColor, socketRooms, connected,
                   lastEvent, pre, outbox, ret>>

NextOrder ==
    \/ \E c \in Sessions : onMouseMoveTo(c)
    \/ \E s \in Sessions : Inbound(s, "JOIN_ROOM") /\ JOIN_ROOM(s, ClientRoom)
    \/ \E s \in Sessions : Inbound(s, "DRAW") /\ DRAW(s, Head(clients[s].up).op)

SpecOrder == InitSync /\ [][NextOrder]_vars

(* One browser that joins and only listens, beside sockets that draw, undo, *)
(* redo and clear.  Only the listener's connection is modelled as queues;  *)
(* it may join before, between or after the others' messages.  The server  *)
(* is at most MaxBacklog messages ahead of the listener, and no stroke is   *)
(* drawn once the listener shows more strokes than a history can hold.      *)
MaxBacklog == 4

Watcher == SessionIds[1]
Drawers == Sessions \ {Watcher}

InitWatch ==
    /\ roomStates = EmptyMap
    /\ rooms = EmptyMap
    /\ currentRoom = [s \in AllSessions |-> NULL]
    /\ userColor = [s \in AllSessions |-> NoColor]
    /\ socketRooms = [s \in AllSessions |-> {}]
    /\ connected = [s \in AllSessions |-> TRUE]
    /\ lastEvent = NoEvent
    /\ pre = EmptyMap
    /\ outbox = <<>>
    /\ ret = NoReturn
    /\ clients = [c \in {Watcher} |-> Browser]

Backlogged == Len(clients[Watcher].down) + 2 > MaxBacklog

NextWatch ==
    \/ Inbound(Watcher, "JOIN_ROOM") /\ JOIN_ROOM(Watcher, ClientRoom)
    \/ Receive(Watcher)
    \/ \E s \in Drawers : currentRoom[s] = NULL /\ JOIN_ROOM(s, ClientRoom)
    \/ \E s \in Drawers, data \in {Op1, Op2} :
           /\ ~Backlogged
           /\ Len(clients[Watcher].canvas) <= MAX_HISTORY_SIZE
           /\ DRAW(s, data)
    \/ \E s \in Drawers : ~Backlogged /\ UNDO(s)
    \/ \E s \in Drawers : ~Backlogged /\ REDO(s)
    \/ \E s \in Drawers : ~Backlogged /\ CLEAR(s)

SpecWatch == InitWatch /\ [][NextWatch]_vars

(* Two rooms and two clients, which draw, undo, redo, clear and leave;    *)
(* either client names either room and may change rooms.                   *)
Pair == {SessionIds[1], SessionIds[2]}

NextApart ==
    \/ \E s \in Pair, roomId \in RoomInputs : JOIN_ROOM(s, roomId)
    \/ \E s \in Pair : DRAW(s, Op1)
    \/ \E s \in Pair : UNDO(s)
    \/ \E s \in Pair : REDO(s)
    \/ \E s \in Pair : CLEAR(s)
    \/ \E s \in Pair : disconnect(s)

SpecApart == Init /\ [][NextApart]_vars

(* Clients that draw and undo, move the cursor and ask for the history. *)
NextQuery ==
    \/ \E s \in Sessions : JOIN_ROOM(s, ClientRoom)
    \/ \E s \in Sessions : DRAW(s, Op1)
    \/ \E s \in Sessions : UNDO(s)
    \/ \E s \in Sessions, data \in CursorInputs : CURSOR_MOVE(s, data)
    \/ \E s \in Sessions : REQUEST_HISTORY(s)
    \/ \E s \in Sessions : disconnect(s)

SpecQuery == Init /\ [][NextQuery]_vars

(* Joins that end in the catch block. *)
NextFault ==
    \/ \E s \in Sessions : JOIN_ROOM(s, ClientRoom)
    \/ \E s \in Sessions, step \in JoinSteps : JOIN_ROOM_catch(s, ClientRoom, step)
    \/ \E s \in Sessions : DRAW(s, Op1)
    \/ \E s \in Sessions : REQUEST_HISTORY(s)
    \/ \E s \in Sessions : disconnect(s)

SpecFault == Init /\ [][NextFault]_vars

---------------------------------------------------------------------------
(* The functions called directly, on arguments of any shape. *)

(* what a direct call records: the call, its result, and no emit *)
Called(ev, r) ==
    /\ lastEvent' = ev
    /\ pre' = roomStates
    /\ outbox' = <<>>
    /\ ret' = r
    /\ UNCHANGED clients

FromInputs ==
    {Point(Num(0), Num(0)), Point(Str("0"), Num(0)), Point(Num(0), Undefined),
     NoPoint, NullPoint}
ToInputs == {Point(Num(1), Num(-1)), Point(Undefined, Num(1)), NoPoint}
ToolInputs == {Str("brush"), Str("eraser"), Str("pen"), Undefined, Num(1)}
WidthInputs == {Num(0), Num(1), Num(50), Num(100), Num(101), Str("5"), Undefined}
ColorInputs == {Str("#000000"), Str(""), Undefined, Num(0)}

OperationInputs ==
    {Operation(f, g, tl, w, c) :
        f \in FromInputs, g \in ToInputs, tl \in ToolInputs,
        w \in WidthInputs, c \in ColorInputs}
    \cup {NoOperation, [NoOperation EXCEPT !.t = "null"], [NoOperation EXCEPT !.t = "string"]}

CallIsValidOperation(op) ==
    /\ Called([Event("isValidOperation", "", NULL) EXCEPT !.op = op],
              [NoReturn EXCEPT !.ok = isValidOperation(op)])
    /\ UNCHANGED <<roomStates, rooms, currentRoom, userColor, socketRooms, connected>>

(* RoomManager is exported as a singleton: its methods on any room and    *)
(* member.  The sockets join one room; the other room is one nobody joined. *)
JoinedRoom == DefaultRoom
OtherRoom == <<"r", "1">>
RegistryRooms == {JoinedRoom, OtherRoom}

CallAddUser(roomId, userId) ==
    /\ LET a == addUser(rooms, roomId, userId)
       IN  /\ rooms' = a.rooms
           /\ Called(Event("addUser", userId, roomId),
                     [NoReturn EXCEPT !.threw = a.threw, !.color = a.color,
                                      !.users = a.users, !.registry = rooms])
    /\ UNCHANGED <<roomStates, currentRoom, userColor, socketRooms, connected>>

CallRemoveUser(roomId, userId) ==
    /\ LET r == removeUser(rooms, roomId, userId)
       IN  /\ rooms' = r.rooms
           /\ Called(Event("removeUser", userId, roomId),
                     [NoReturn EXCEPT !.threw = r.threw, !.registry = rooms])
    /\ UNCHANGED <<roomStates, currentRoom, userColor, socketRooms, connected>>

CallGetUsers(roomId) ==
    /\ LET g == getUsers(rooms, roomId)
       IN  /\ rooms' = g.rooms
           /\ Called(Event("getUsers", "", roomId),
                     [NoReturn EXCEPT !.threw = g.threw, !.users = g.value,
                                      !.registry = rooms])
    /\ UNCHANGED <<roomStates, currentRoom, userColor, socketRooms, connected>>

NextRegistry ==
    \/ \E userId \in Sessions : CallAddUser(JoinedRoom, userId)
    \/ \E roomId \in RegistryRooms, userId \in Sessions : CallRemoveUser(roomId, userId)
    \/ \E roomId \in RegistryRooms : CallGetUsers(roomId)

SpecRegistry == Init /\ [][NextRegistry]_vars

(* DrawingState is exported as a singleton: addOperation with operations  *)
(* of any shape, and undo to fill the redo stack.                          *)
OpUnknownTool ==
    Operation(Point(Num(0), Num(0)), Point(Num(1), Num(1)), Str("pen"), Num(5), Str("#000000"))
OpNoCoordinates == Operation(NoPoint, NoPoint, Str("brush"), Num(5), Str("#000000"))
OpNoColor ==
    Operation(Point(Num(0), Num(0)), Point(Num(1), Num(1)), Str("brush"), Num(5), Undefined)
StoreInputs ==
    {Op1, OpTooWide, OpUnknownTool, OpNoCoordinates, OpNoColor,
     NoOperation, [NoOperation EXCEPT !.t = "null"], [NoOperation EXCEPT !.t = "number"]}

CallAddOperation(roomId, operation) ==
    /\ LET a == addOperation(roomStates, roomId, operation)
       IN  /\ roomStates' = a.states
           /\ Called([Event("addOperation", "", roomId) EXCEPT !.op = operation],
                     [NoReturn EXCEPT !.threw = a.threw])
    /\ UNCHANGED <<rooms, currentRoom, userColor, socketRooms, connected>>

CallUndo(roomId) ==
    /\ LET u == undo(roomStates, roomId)
       IN  /\ roomStates' = u.states
           /\ Called(Event("undo", "", roomId), [NoReturn EXCEPT !.threw = u.threw])
    /\ UNCHANGED <<rooms, currentRoom, userColor, socketRooms, connected>>

NextStore ==
    \/ \E operation \in StoreInputs : CallAddOperation(DefaultRoom, operation)
    \/ CallUndo(DefaultRoom)

SpecStore == Init /\ [][NextStore]_vars

NextValidate == \E op \in OperationInputs : CallIsValidOperation(op)

SpecValidate == Init /\ [][NextValidate]_vars

(* DrawingState called directly on one room: every method that touches the *)
(* redo stack, the queries, deleteRoom, and k undo calls followed by k redo *)
(* calls with nothing in between; of that step pre keeps the drawing state *)
(* between the last undo and the first redo.                               *)
RECURSIVE undoTimes(_, _, _)
undoTimes(st, roomId, k) ==
    IF k = 0 THEN st ELSE undoTimes(undo(st, roomId).states, roomId, k - 1)

RECURSIVE redoTimes(_, _, _)
redoTimes(st, roomId, k) ==
    IF k = 0 THEN st ELSE redoTimes(redo(st, roomId).states, roomId, k - 1)

CallRedo(roomId) ==
    /\ LET r == redo(roomStates, roomId)
       IN  /\ roomStates' = r.states
           /\ Called(Event("redo", "", roomId), [NoReturn EXCEPT !.threw = r.threw])
    /\ UNCHANGED <<rooms, currentRoom, userColor, socketRooms, connected>>

CallClear(roomId) ==
    /\ LET c == clear(roomStates, roomId)
       IN  /\ roomStates' = c.states
           /\ Called(Event("clear", "", roomId), [NoReturn EXCEPT !.threw = c.threw])
    /\ UNCHANGED <<rooms, currentRoom, userColor, socketRooms, connected>>

CallCanUndo(roomId) ==
    /\ LET c == canUndo(roomStates, roomId)
       IN  /\ roomStates' = c.states
           /\ Called(Event("canUndo", "", roomId),
                     [NoReturn EXCEPT !.threw = c.threw, !.ok = c.value])
    /\ UNCHANGED <<rooms, currentRoom, userColor, socketRooms, connected>>

CallCanRedo(roomId) ==
    /\ LET c == canRedo(roomStates, roomId)
       IN  /\ roomStates' = c.states
           /\ Called(Event("canRedo", "", roomId),
                     [NoReturn EXCEPT !.threw = c.threw, !.ok = c.value])
    /\ UNCHANGED <<rooms, currentRoom, userColor, socketRooms, connected>>

CallDeleteRoom(roomId) ==
    /\ roomStates' = deleteRoom(roomStates, roomId)
    /\ Called(Event("deleteRoom", "", roomId), NoReturn)
    /\ UNCHANGED <<rooms, currentRoom, userColor, socketRooms, connected>>

CallUndosThenRedos(roomId, k) ==
    /\ k <= Len(StateOf(roomStates, roomId).history)
    /\ roomStates' = redoTimes(undoTimes(roomStates, roomId, k), roomId, k)
    /\ lastEvent' = Event("undos-redos", "", roomId)
    /\ pre' = undoTimes(roomStates, roomId, k)
    /\ outbox' = <<>>
    /\ ret' = NoReturn
    /\ UNCHANGED clients
    /\ UNCHANGED <<rooms, currentRoom, userColor, socketRooms, connected>>

NextUndoRedo ==
    \/ \E operation \in {Op1, Op2} : CallAddOperation(DefaultRoom, operation)
    \/ CallUndo(DefaultRoom)
    \/ CallRedo(DefaultRoom)
    \/ CallClear(DefaultRoom)
    \/ CallCanUndo(DefaultRoom)
    \/ CallCanRedo(DefaultRoom)
    \/ CallDeleteRoom(DefaultRoom)
    \/ \E k \in 1..MAX_HISTORY_SIZE : CallUndosThenRedos(DefaultRoom, k)

SpecUndoRedo == Init /\ [][NextUndoRedo]_vars

---------------------------------------------------------------------------
(* What the claims observe. *)

(* the last step ran the named handler for a socket that had joined a room *)
Ran(type) == lastEvent.type = type /\ lastEvent.room # NULL

(* the last step was a DRAW that reached addOperation *)
Accepted(ev) == ev.type = "DRAW" /\ ev.room # NULL /\ isValidOperation(ev.op)

Before == StateOf(pre, lastEvent.room)
After == StateOf(roomStates, lastEvent.room)

---------------------------------------------------------------------------
(* C1: in every reachable state, every room's history holds at most        *)
(* MAX_HISTORY_SIZE operations, whatever DRAW, UNDO, REDO and CLEAR events *)
(* came before.                                                            *)
C1_HistoryBounded ==
    \A room \in DOMAIN roomStates : Len(roomStates[room].history) <= MAX_HISTORY_SIZE

(* a DRAW was appended to a history that was already full *)
C1_Witness ==
    /\ Accepted(lastEvent)
    /\ Len(Before.history) = MAX_HISTORY_SIZE
    /\ Len(After.history) = MAX_HISTORY_SIZE

(* C2: an append to a history that already holds MAX_HISTORY_SIZE entries  *)
(* evicts exactly the oldest one: the new history is the old one without   *)
(* its first element, followed by the new operation.                       *)
C2_EvictsOldest ==
    (Accepted(lastEvent) /\ Len(Before.history) = MAX_HISTORY_SIZE)
        => After.history = Append(Tail(Before.history), lastEvent.op)

(* an append to a full history whose oldest and newest entries differ *)
C2_Witness ==
    /\ Accepted(lastEvent)
    /\ Len(Before.history) = MAX_HISTORY_SIZE
    /\ Before.history[1] # Last(Before.history)
    /\ After.history[1] = Before.history[2]

(* C3: every accepted DRAW leaves the room's redo stack empty whatever it  *)
(* held, and a REDO that immediately follows an accepted DRAW in the same  *)
(* room leaves the history unchanged.                                      *)
C3_AppendClearsRedo ==
    [][ /\ Accepted(lastEvent') =>
              StateOf(roomStates', lastEvent'.room).redoStack = <<>>
        /\ (Accepted(lastEvent) /\ lastEvent'.type = "REDO"
                                /\ lastEvent'.room = lastEvent.room) =>
              StateOf(roomStates', lastEvent.room).history
                  = StateOf(roomStates, lastEvent.room).history ]_vars

(* an accepted DRAW in a room whose redo stack held an operation *)
C3_Witness ==
    /\ Accepted(lastEvent)
    /\ Before.redoStack # <<>>
    /\ After.redoStack = <<>>

(* C4: UNDO on a non-empty history removes exactly its last operation and  *)
(* pushes that operation on top of the redo stack; UNDO on an empty        *)
(* history changes neither.                                                *)
C4_UndoMovesTail ==
    Ran("UNDO") =>
        IF Before.history # <<>>
        THEN /\ After.history = Front(Before.history)
             /\ After.redoStack = Append(Before.redoStack, Last(Before.history))
        ELSE After = Before

(* an UNDO that moved an operation onto a redo stack that already held one *)
C4_Witness ==
    /\ Ran("UNDO")
    /\ Before.history # <<>>
    /\ Before.redoStack # <<>>
    /\ Len(After.redoStack) = Len(Before.redoStack) + 1

(* C5: an UNDO on a non-empty history immediately followed by a REDO in    *)
(* the same room restores the history and the redo stack to what they were *)
(* before the UNDO.                                                        *)
C5_RedoInvertsUndo ==
    [][ (/\ lastEvent.type = "UNDO" /\ lastEvent.room # NULL
         /\ Before.history # <<>>
         /\ lastEvent'.type = "REDO" /\ lastEvent'.room = lastEvent.room)
            => StateOf(roomStates', lastEvent.room) = Before ]_vars

(* a REDO has acted on exactly the state an UNDO makes of the present one *)
C5_Witness ==
    /\ Ran("REDO")
    /\ Len(After.history) >= 2
    /\ Before.history = Front(After.history)
    /\ Before.redoStack = Append(After.redoStack, Last(After.history))
    /\ After.history[1] # Last(After.history)

(* C6: after CLEAR the room's history and redo stack are empty, canUndo    *)
(* and canRedo are false, and an UNDO or REDO that follows is a no-op.     *)
C6_ClearIsFinal ==
    [][ /\ (lastEvent'.type = "CLEAR" /\ lastEvent'.room # NULL) =>
              /\ StateOf(roomStates', lastEvent'.room) = EmptyRoomState
              /\ ~canUndo(roomStates', lastEvent'.room).value
              /\ ~canRedo(roomStates', lastEvent'.room).value
        /\ (/\ lastEvent.type = "CLEAR" /\ lastEvent.room # NULL
            /\ lastEvent'.type \in {"UNDO", "REDO"}
            /\ lastEvent'.room = lastEvent.room) =>
              roomStates' = roomStates ]_vars

(* a CLEAR of a room that held both drawn and undone operations *)
C6_Witness ==
    /\ Ran("CLEAR")
    /\ Before.history # <<>>
    /\ Before.redoStack # <<>>
    /\ After = EmptyRoomState

(* C7: the undo stack is the room's, not the user's.  An UNDO from any    *)
(* joined socket removes the last operation of the room's history whoever  *)
(* drew it, and a REDO from any joined socket restores the operation on    *)
(* top of the room's redo stack whoever undid it.                          *)
C7_GlobalUndoRedo ==
    /\ (Ran("UNDO") /\ Before.history # <<>>) =>
          /\ After.history = Front(Before.history)
          /\ After.redoStack = Append(Before.redoStack, Last(Before.history))
    /\ (Ran("REDO") /\ Before.redoStack # <<>>) =>
          /\ After.history = Append(Before.history, Last(Before.redoStack))
          /\ After.redoStack = Front(Before.redoStack)

(* a socket has undone a stroke that another socket drew *)
C7_Witness ==
    /\ Ran("UNDO")
    /\ Before.history # <<>>
    /\ \E t \in Sessions \ {lastEvent.sender} : Last(Before.history) = OwnStroke(t)
    /\ After.history = Front(Before.history)

(* C8: as long as no socket has left, the i-th socket to join a room holds *)
(* USER_COLORS[(i-1) mod length], wrap-around included, and that is the    *)
(* colour USER_INIT tells the joiner.                                      *)
C8_ColorsByJoinOrder ==
    (\A s \in AllSessions : connected[s]) =>
        /\ \A room \in DOMAIN rooms : \A i \in 1..Len(rooms[room]) :
              rooms[room][i].color = USER_COLORS[((i - 1) % NumColors) + 1]
        /\ Ran("JOIN_ROOM") =>
              \E i \in 1..Len(rooms[lastEvent.room]) :
                  /\ rooms[lastEvent.room][i].id = lastEvent.sender
                  /\ outbox[1].type = "USER_INIT"
                  /\ outbox[1].color = USER_COLORS[((i - 1) % NumColors) + 1]

(* more sockets than palette entries have joined one room, none has left *)
C8_Witness ==
    /\ \A s \in AllSessions : connected[s]
    /\ Ran("JOIN_ROOM")
    /\ Len(rooms[lastEvent.room]) > NumColors
    /\ rooms[lastEvent.room][Len(rooms[lastEvent.room])].id = lastEvent.sender
    /\ outbox[1].color = USER_COLORS[1]

(* C9: once every member of a room has disconnected, the room's history    *)
(* and redo stack are gone: the next socket to join that room is sent an   *)
(* empty DRAW_HISTORY and UNDO_REDO_STATE {canUndo: false, canRedo: false}.*)
C9_FreshAfterLastLeave ==
    [][ (/\ lastEvent'.type = "JOIN_ROOM"
         /\ \A t \in AllSessions : hasUser(rooms, lastEvent'.room, t) => ~connected[t])
            => /\ Len(outbox') >= 3
               /\ outbox'[2] = DrawHistory({lastEvent'.sender}, <<>>)
               /\ outbox'[3] = UndoRedoState({lastEvent'.sender}, FALSE, FALSE) ]_vars

(* the form of C9 the code keeps: a disconnect that leaves the socket's    *)
(* current room without members deletes that room's drawing state.         *)
C9_CurrentRoomDisposed ==
    (Ran("disconnect") /\ getUserCount(rooms, lastEvent.room) = 0)
        => lastEvent.room \notin DOMAIN roomStates

(* the shape the wire protocol gives an operation *)
WellShaped(op) ==
    /\ op.t = "object"
    /\ op.from.t = "object" /\ op.from.x.t = "number" /\ op.from.y.t = "number"
    /\ op.to.t = "object" /\ op.to.x.t = "number" /\ op.to.y.t = "number"
    /\ op.tool \in {Str("brush"), Str("eraser")}
    /\ op.lineWidth.t = "number" /\ op.lineWidth.n >= 1 /\ op.lineWidth.n <= 100
    /\ op.tool = Str("brush") => (op.color.t = "string" /\ op.color.s # "")

(* C10: a DRAW from a joined socket whose payload fails shape validation   *)
(* (lineWidth = 500) changes no room's history or redo stack and emits     *)
(* nothing: no broadcast, and no ERROR to the sender.                      *)
C10_InvalidDrawDropped ==
    (Ran("DRAW") /\ ~WellShaped(lastEvent.op)) =>
        /\ roomStates = pre
        /\ outbox = <<>>

(* lineWidth = 500 arrived in a room with history, redo stack and a second member *)
C10_Witness ==
    /\ Ran("DRAW")
    /\ lastEvent.op.lineWidth = Num(500)
    /\ Before.history # <<>>
    /\ Before.redoStack # <<>>
    /\ InRoom(socketRooms, lastEvent.room) \ {lastEvent.sender} # {}

(* C11: isValidOperation accepts a payload exactly when from and to each   *)
(* carry numeric x and y, tool is 'brush' or 'eraser', lineWidth is a      *)
(* number in 1..100 inclusive and, for a brush, color is a non-empty       *)
(* string; every other payload is rejected, and an eraser needs no color.  *)
C11_AcceptsExactlyWellShaped ==
    lastEvent.type = "isValidOperation" => (ret.ok <=> WellShaped(lastEvent.op))

(* an eraser of the widest allowed line and no colour was accepted *)
C11_Witness ==
    /\ lastEvent.type = "isValidOperation"
    /\ ret.ok
    /\ lastEvent.op.tool = Str("eraser")
    /\ lastEvent.op.lineWidth = Num(100)
    /\ lastEvent.op.color = Undefined

(* C12: as long as a socket has joined no room (its currentRoom is null),  *)
(* every DRAW, CURSOR_MOVE, UNDO, REDO, CLEAR and REQUEST_HISTORY it sends *)
(* is ignored: the registry, every room's history and redo stack and the   *)
(* socket.io rooms stay as they are, and nothing is emitted.               *)
C12_UnjoinedIgnored ==
    [][ ( /\ lastEvent'.type \in {"DRAW", "CURSOR_MOVE", "UNDO", "REDO", "CLEAR",
                                  "REQUEST_HISTORY"}
          /\ lastEvent'.sender \in AllSessions
          /\ currentRoom[lastEvent'.sender] = NULL ) =>
            /\ rooms' = rooms
            /\ roomStates' = roomStates
            /\ socketRooms' = socketRooms
            /\ outbox' = <<>> ]_vars

(* a valid stroke from a socket that never joined, while another socket's  *)
(* room held a stroke                                                      *)
C12_Witness ==
    /\ lastEvent.type = "DRAW"
    /\ lastEvent.room = NULL
    /\ isValidOperation(lastEvent.op)
    /\ \E room \in DOMAIN roomStates :
           /\ roomStates[room].history # <<>>
           /\ InRoom(socketRooms, room) # {}
    /\ roomStates = pre
    /\ outbox = <<>>

(* C13: a JOIN_ROOM one of whose steps raises sends ERROR to the           *)
(* requesting socket and leaves the socket as it was: its currentRoom, the *)
(* registry and the socket.io rooms are unchanged, so that what it sends   *)
(* afterwards is still ignored.                                            *)
C13_FailedJoinStaysUnjoined ==
    [][ ( /\ lastEvent'.type = "JOIN_ROOM"
          /\ outbox' # <<>>
          /\ Last(outbox').type = "ERROR" ) =>
            /\ Last(outbox').to = {lastEvent'.sender}
            /\ currentRoom' = currentRoom
            /\ rooms' = rooms
            /\ socketRooms' = socketRooms ]_vars

(* C13, the part the handler keeps: a JOIN_ROOM that ends in the catch     *)
(* block emits ERROR to the requesting socket and to no other.             *)
C13_FailedJoinSendsError ==
    (lastEvent.type = "JOIN_ROOM" /\ \E i \in 1..Len(outbox) : outbox[i].type = "ERROR") =>
        /\ Last(outbox) = Msg("ERROR", {lastEvent.sender})
        /\ \A i \in 1..Len(outbox) : outbox[i].to = {lastEvent.sender}

(* a room's members in the given registry; a room without an entry has none *)
MembersOf(rm, roomId) == IF roomId \in DOMAIN rm THEN rm[roomId] ELSE <<>>

(* C14: addUser for a member already in the room returns the colour the    *)
(* member holds and leaves the registry as it is: the room's members,      *)
(* their order and their colours, however often the join is repeated.      *)
C14_JoinIdempotent ==
    ( /\ lastEvent.type = "addUser"
      /\ RoomHas(MembersOf(ret.registry, lastEvent.room), lastEvent.sender) ) =>
        /\ ~ret.threw
        /\ ret.color = RoomGet(ret.registry[lastEvent.room], lastEvent.sender).color
        /\ rooms = ret.registry
        /\ ret.users = rooms[lastEvent.room]

(* a member joined again whose colour is not the one a newcomer would get *)
C14_Witness ==
    /\ lastEvent.type = "addUser"
    /\ RoomHas(MembersOf(ret.registry, lastEvent.room), lastEvent.sender)
    /\ Len(rooms[lastEvent.room]) > 1
    /\ ret.color # USER_COLORS[(Len(rooms[lastEvent.room]) % Len(USER_COLORS)) + 1]

(* C15: removeUser does not throw; afterwards the room's members are those *)
(* it had without the given member, in their order and colours (the same   *)
(* members when the member or the room was absent), every other room is as *)
(* it was, and a room left without members, known before or not, has no    *)
(* entry in the registry.                                                  *)
C15_LeaveRemoves ==
    lastEvent.type = "removeUser" =>
        LET kept == SelectSeq(MembersOf(ret.registry, lastEvent.room),
                              LAMBDA u : u.id # lastEvent.sender)
        IN  /\ ~ret.threw
            /\ MembersOf(rooms, lastEvent.room) = kept
            /\ kept = <<>> <=> lastEvent.room \notin getRoomIds(rooms)
            /\ \A roomId \in (DOMAIN rooms \cup DOMAIN ret.registry) \ {lastEvent.room} :
                   /\ roomId \in DOMAIN rooms
                   /\ roomId \in DOMAIN ret.registry
                   /\ rooms[roomId] = ret.registry[roomId]

(* the only member of a room left, and the room's entry went with it *)
C15_Witness ==
    /\ lastEvent.type = "removeUser"
    /\ Len(MembersOf(ret.registry, lastEvent.room)) = 1
    /\ RoomHas(MembersOf(ret.registry, lastEvent.room), lastEvent.sender)
    /\ lastEvent.room \notin getRoomIds(rooms)

(* a leave on a room the registry did not know *)
C15_UnknownRoom ==
    /\ lastEvent.type = "removeUser"
    /\ lastEvent.room \notin DOMAIN ret.registry
    /\ lastEvent.room \notin getRoomIds(rooms)

(* C16: getUsers returns the room's members in their order (none for a     *)
(* room the registry does not know) and leaves the registry as it is: the  *)
(* same room ids, the same members in every room.                          *)
C16_MembersReadOnly ==
    lastEvent.type = "getUsers" =>
        /\ ~ret.threw
        /\ ret.users = MembersOf(ret.registry, lastEvent.room)
        /\ getRoomIds(rooms) = getRoomIds(ret.registry)
        /\ rooms = ret.registry

(* C16, the part getUsers keeps: the list returned is the room's members,  *)
(* and no room's members change.                                           *)
C16_MembersUnchanged ==
    lastEvent.type = "getUsers" =>
        /\ ~ret.threw
        /\ ret.users = MembersOf(ret.registry, lastEvent.room)
        /\ \A roomId \in DOMAIN rooms \cup DOMAIN ret.registry :
               MembersOf(rooms, roomId) = MembersOf(ret.registry, roomId)

(* C17: addOperation called with an operation of malformed shape (unknown  *)
(* tool, lineWidth outside 1..100, missing coordinates, brush without      *)
(* color) throws, and the room's history and redo stack are unchanged.     *)
C17_MalformedAppendFails ==
    (lastEvent.type = "addOperation" /\ ~WellShaped(lastEvent.op)) =>
        /\ ret.threw
        /\ roomStates = pre

(* C17 as the code has it: addOperation throws exactly when the operation  *)
(* is not an object (null, undefined, a scalar), and then no room's        *)
(* history or redo stack has changed; an object of any shape is appended.  *)
C17_NonObjectAppendFails ==
    lastEvent.type = "addOperation" =>
        /\ ret.threw <=> lastEvent.op.t # "object"
        /\ ret.threw => roomStates = pre
        /\ ~ret.threw =>
              /\ After.history # <<>>
              /\ Last(After.history) = lastEvent.op
              /\ After.redoStack = <<>>

(* a non-object was refused by a room that held a stroke and an undone one *)
C17_Witness ==
    /\ lastEvent.type = "addOperation"
    /\ lastEvent.op.t # "object"
    /\ ret.threw
    /\ Before.history # <<>>
    /\ Before.redoStack # <<>>
    /\ After = Before

(* no message is on its way, in either direction *)
Quiet == \A c \in DOMAIN clients : clients[c].up = <<>> /\ clients[c].down = <<>>

(* C18: whenever no message is in flight, the strokes on the canvas of     *)
(* every joined client, those it drew itself included, are the history the *)
(* server holds for its room, in the same order.                           *)
C18_ClientsInSync ==
    Quiet =>
        \A c \in DOMAIN clients :
            currentRoom[c] # NULL =>
                clients[c].canvas = StateOf(roomStates, currentRoom[c]).history

(* C18, the race of a stroke with an UNDO of the empty history: nothing is *)
(* in flight, the server holds a stroke its own author does not show.      *)
C18_LostStroke ==
    /\ Quiet
    /\ \E c \in DOMAIN clients :
           /\ currentRoom[c] # NULL
           /\ StateOf(roomStates, currentRoom[c]).history = <<OwnStroke(c)>>
           /\ clients[c].canvas = <<>>

(* the sockets the registry lists as members of the room *)
MemberIds(rm, roomId) == {MembersOf(rm, roomId)[i].id : i \in 1..Len(MembersOf(rm, roomId))}

(* C19: an accepted DRAW is emitted as DRAW, with the operation, to every  *)
(* member of the sender's room but the sender, and then UNDO_REDO_STATE    *)
(* {canUndo: true, canRedo: false} to every member, the sender included.   *)
C19_DrawFanOut ==
    Accepted(lastEvent) =>
        LET members == MemberIds(rooms, lastEvent.room)
        IN  /\ lastEvent.sender \in members
            /\ outbox = << [Msg("DRAW", members \ {lastEvent.sender}) EXCEPT !.op = lastEvent.op],
                           UndoRedoState(members, TRUE, FALSE) >>

(* a stroke drawn with another member in the room and an operation on the  *)
(* redo stack                                                              *)
C19_Witness ==
    /\ Accepted(lastEvent)
    /\ MemberIds(rooms, lastEvent.room) \ {lastEvent.sender} # {}
    /\ Before.redoStack # <<>>
    /\ Len(outbox) = 2
    /\ outbox[1].to = MemberIds(rooms, lastEvent.room) \ {lastEvent.sender}

(* C20: every UNDO and every REDO of a joined socket, also one that finds  *)
(* nothing to undo or redo, emits DRAW_HISTORY with the room's history as  *)
(* it is after the operation to every member of the room, the sender       *)
(* included, and then UNDO_REDO_STATE to every member.                     *)
C20_UndoRedoSendHistory ==
    (Ran("UNDO") \/ Ran("REDO")) =>
        LET members == MemberIds(rooms, lastEvent.room)
        IN  /\ lastEvent.sender \in members
            /\ outbox = << DrawHistory(members, After.history),
                           UndoRedoState(members, After.history # <<>>,
                                         After.redoStack # <<>>) >>

(* a REDO with nothing to redo sent the unchanged, non-empty history to    *)
(* two members                                                             *)
C20_Witness ==
    /\ Ran("REDO")
    /\ Before.redoStack = <<>>
    /\ Before.history # <<>>
    /\ Cardinality(MemberIds(rooms, lastEvent.room)) = 2
    /\ Len(outbox) = 2
    /\ outbox[1] = DrawHistory(MemberIds(rooms, lastEvent.room), Before.history)

(* C21: every UNDO_REDO_STATE the server emits, after a join, a DRAW, an   *)
(* UNDO, a REDO or a REQUEST_HISTORY and the fixed {false, false} after a  *)
(* CLEAR, carries canUndo = the room's history is non-empty and canRedo =  *)
(* the room's redo stack is non-empty, for the room as it is when emitted. *)
C21_UndoRedoStateTruthful ==
    \A i \in 1..Len(outbox) :
        outbox[i].type = "UNDO_REDO_STATE" =>
            /\ outbox[i].canUndo = (After.history # <<>>)
            /\ outbox[i].canRedo = (After.redoStack # <<>>)

(* a REQUEST_HISTORY answered with canUndo and canRedo both true *)
C21_Witness ==
    /\ Ran("REQUEST_HISTORY")
    /\ Len(outbox) = 2
    /\ outbox[2].type = "UNDO_REDO_STATE"
    /\ outbox[2].canUndo /\ outbox[2].canRedo
    /\ After.history # <<>> /\ After.redoStack # <<>>

(* the fixed {false, false} after a CLEAR of a room that held both *)
C21_AfterClear ==
    /\ Ran("CLEAR")
    /\ Before.history # <<>> /\ Before.redoStack # <<>>
    /\ Len(outbox) = 2
    /\ outbox[2] = UndoRedoState(InRoom(socketRooms, lastEvent.room), FALSE, FALSE)

(* C22: a JOIN_ROOM emits to the joiner, in this order, USER_INIT with its *)
(* id, the colour the registry holds for it and the member list with the   *)
(* joiner in it, DRAW_HISTORY with the room's history, and                 *)
(* UNDO_REDO_STATE; then USER_JOINED with the joiner's id and colour to    *)
(* every other member and not to the joiner.  No room's history or redo    *)
(* stack changes.                                                          *)
C22_JoinSequence ==
    Ran("JOIN_ROOM") =>
        LET s == lastEvent.sender
            members == MembersOf(rooms, lastEvent.room)
            color == RoomGet(members, s).color
        IN  /\ RoomHas(members, s)
            /\ userColor[s] = color
            /\ outbox = << [Msg("USER_INIT", {s}) EXCEPT !.id = s, !.color = color,
                                                         !.users = members],
                           DrawHistory({s}, After.history),
                           UndoRedoState({s}, After.history # <<>>, After.redoStack # <<>>),
                           [Msg("USER_JOINED", MemberIds(rooms, lastEvent.room) \ {s})
                               EXCEPT !.id = s, !.color = color] >>
            /\ \A room \in DOMAIN roomStates \cup DOMAIN pre :
                   StateOf(roomStates, room) = StateOf(pre, room)

(* the second socket joined a room that held a stroke and an undone one *)
C22_Witness ==
    /\ Ran("JOIN_ROOM")
    /\ Len(MembersOf(rooms, lastEvent.room)) = 2
    /\ MembersOf(rooms, lastEvent.room)[2].id = lastEvent.sender
    /\ After.history # <<>> /\ After.redoStack # <<>>
    /\ Len(outbox) = 4
    /\ outbox[4].to = {MembersOf(rooms, lastEvent.room)[1].id}

(* C23: the disconnect of a socket that has joined a room takes it out of  *)
(* the room's members, deletes the room's drawing state if and only if no  *)
(* member is left, and emits USER_LEFT with its id to the members left and *)
(* not to the socket; the disconnect of a socket that has joined no room   *)
(* changes neither registry nor drawing state and emits nothing.           *)
C23_DisconnectLeaves ==
    [][ lastEvent'.type = "disconnect" =>
          LET s == lastEvent'.sender
              room == currentRoom[s]
              left == SelectSeq(MembersOf(rooms, room), LAMBDA u : u.id # s)
          IN  IF room = NULL
              THEN /\ rooms' = rooms
                   /\ roomStates' = roomStates
                   /\ outbox' = <<>>
              ELSE /\ RoomHas(MembersOf(rooms, room), s)
                   /\ MembersOf(rooms', room) = left
                   /\ \A other \in (DOMAIN rooms \cup DOMAIN rooms') \ {room} :
                          MembersOf(rooms', other) = MembersOf(rooms, other)
                   /\ IF left = <<>>
                      THEN roomStates' = deleteRoom(roomStates, room)
                      ELSE roomStates' = roomStates
                   /\ left = <<>> <=> room \notin DOMAIN roomStates'
                   /\ outbox' = << [Msg("USER_LEFT", {left[i].id : i \in 1..Len(left)})
                                       EXCEPT !.id = s] >>
                   /\ s \notin outbox'[1].to ]_vars

(* a socket left a room that keeps a member and its strokes *)
C23_Witness ==
    /\ Ran("disconnect")
    /\ ~connected[lastEvent.sender]
    /\ ~RoomHas(MembersOf(rooms, lastEvent.room), lastEvent.sender)
    /\ Len(MembersOf(rooms, lastEvent.room)) = 1
    /\ outbox = << [Msg("USER_LEFT", MemberIds(rooms, lastEvent.room)) EXCEPT !.id = lastEvent.sender] >>
    /\ After.history # <<>>
    /\ After = Before

(* the last member left a room that held strokes, and the strokes went *)
C23_Disposed ==
    /\ Ran("disconnect")
    /\ MembersOf(rooms, lastEvent.room) = <<>>
    /\ Before.history # <<>>
    /\ lastEvent.room \notin DOMAIN roomStates

(* the rooms whose member list holds the socket *)
RoomsOf(rm, s) == {room \in DOMAIN rm : RoomHas(rm[room], s)}

(* C24: in every reachable state a socket is a member of at most one room  *)
(* (a JOIN_ROOM for another room does not leave it in the first), and a    *)
(* socket that has disconnected is a member of none.                       *)
C24_OneRoomPerMember ==
    \A s \in AllSessions :
        /\ Cardinality(RoomsOf(rooms, s)) <= 1
        /\ ~connected[s] => RoomsOf(rooms, s) = {}

(* C24 for the shipped client, which only ever joins 'default-room' *)
C24_OneRoomDefaultClient ==
    \A s \in AllSessions :
        /\ RoomsOf(rooms, s) \subseteq {DefaultRoom}
        /\ ~connected[s] => RoomsOf(rooms, s) = {}

(* the strokes of a browser the server has handled: those it sent less    *)
(* those still on their way                                                *)
Processed(c) ==
    clients[c].sent - Len(SelectSeq(clients[c].up, LAMBDA m : m.type = "DRAW"))

TotalProcessed ==
    Cardinality({ck \in (DOMAIN clients) \X (1..MaxStrokes) : ck[2] <= Processed(ck[1])})

(* the strokes of one browser, in the order they stand in the sequence *)
StrokesBy(c, h) == SelectSeq(h, LAMBDA op : op.lineWidth = Stroke(c, 1).lineWidth)

(* C25: the server handles the DRAWs of a room one after the other.  As    *)
(* long as nothing was evicted, each accepted DRAW is appended behind the  *)
(* history the step found, the history holds every stroke handled exactly  *)
(* once, and the strokes of one sender stand in the order it sent them.    *)
C25_TotalOrder ==
    (DOMAIN clients # {} /\ TotalProcessed <= MAX_HISTORY_SIZE) =>
        LET h == StateOf(roomStates, DefaultRoom).history
        IN  /\ Len(h) = TotalProcessed
            /\ \A c \in DOMAIN clients :
                   StrokesBy(c, h) = [k \in 1..Processed(c) |-> Stroke(c, k)]
            /\ Accepted(lastEvent) => h = Append(Before.history, lastEvent.op)

(* two browsers' strokes interleaved: the second stroke of one stands      *)
(* behind the first stroke of the other                                    *)
C25_Witness ==
    /\ DOMAIN clients # {}
    /\ TotalProcessed <= MAX_HISTORY_SIZE
    /\ \E c, d \in DOMAIN clients :
           /\ c # d
           /\ clients[c].sent = MaxStrokes
           /\ StateOf(roomStates, DefaultRoom).history = <<Stroke(d, 1), Stroke(c, 1)>>
           /\ Processed(c) = 1

(* C26: a JOIN_ROOM, DRAW, UNDO, REDO, CLEAR or disconnect handled for a   *)
(* room leaves the history, the redo stack and the members of every other  *)
(* room as they were.                                                      *)
C26_RoomsIndependent ==
    [][ lastEvent'.type \in {"JOIN_ROOM", "DRAW", "UNDO", "REDO", "CLEAR", "disconnect"} =>
          \A other \in (DOMAIN roomStates \cup DOMAIN roomStates'
                           \cup DOMAIN rooms \cup DOMAIN rooms') \ {lastEvent'.room} :
              /\ StateOf(roomStates', other) = StateOf(roomStates, other)
              /\ MembersOf(rooms', other) = MembersOf(rooms, other) ]_vars

(* a CLEAR emptied one room while another held a member, a stroke and an   *)
(* undone stroke                                                           *)
C26_Witness ==
    /\ Ran("CLEAR")
    /\ Before.history # <<>>
    /\ After.history = <<>>
    /\ \E other \in DOMAIN roomStates \ {lastEvent.room} :
           /\ roomStates[other].history # <<>>
           /\ roomStates[other].redoStack # <<>>
           /\ MembersOf(rooms, other) # <<>>

C27_AnsweredToSender ==
    /\ Ran("REQUEST_HISTORY")
    /\ Len(MembersOf(rooms, lastEvent.room)) = 2
    /\ After.history # <<>>
    /\ outbox = << DrawHistory({lastEvent.sender}, After.history),
                   UndoRedoState({lastEvent.sender}, TRUE, After.redoStack # <<>>) >>

(* C28: a socket that joins a room it is not a member of is put last and   *)
(* given USER_COLORS[n mod length], n the number of members the room had    *)
(* just before, whatever colours those members hold; so a room with fewer  *)
(* members than palette entries can hold two members of one colour.        *)
C28_PositionalColor ==
    [][ (lastEvent'.type = "JOIN_ROOM" /\ lastEvent'.room # NULL
           /\ ~hasUser(rooms, lastEvent'.room, lastEvent'.sender)) =>
          LET room == lastEvent'.room
              n == getUserCount(rooms, room)
              color == USER_COLORS[(n % NumColors) + 1]
          IN  /\ MembersOf(rooms', room) =
                     Append(MembersOf(rooms, room),
                            [id |-> lastEvent'.sender, color |-> color])
              /\ outbox'[1].type = "USER_INIT"
              /\ outbox'[1].color = color
              /\ userColor'[lastEvent'.sender] = color ]_vars

(* a member left, a socket joined, and the newcomer holds the colour of a  *)
(* member who is still there, in a room smaller than the palette           *)
C28_Witness ==
    /\ Ran("JOIN_ROOM")
    /\ \E s \in AllSessions : ~connected[s]
    /\ LET room == MembersOf(rooms, lastEvent.room)
       IN  /\ Len(room) < NumColors
           /\ room[Len(room)].id = lastEvent.sender
           /\ \E i \in 1..(Len(room) - 1) :
                  /\ connected[room[i].id]
                  /\ room[i].color = room[Len(room)].color

(* a room identifier as the claim wants it: a non-empty string of at most  *)
(* 50 letters, digits and hyphens                                          *)
WellFormedRoomId(roomId) ==
    /\ roomId.isString
    /\ roomId.chars # <<>>
    /\ Len(roomId.chars) <= MaxRoomIdLen
    /\ \A i \in 1..Len(roomId.chars) : roomId.chars[i] \in RoomIdChars

(* C29: a JOIN_ROOM whose room identifier is not a non-empty string of at  *)
(* most 50 letters, digits and hyphens is refused: the socket joins no     *)
(* room, and no room and no drawing state is created.                      *)
C29_MalformedRoomIdRefused ==
    [][ (lastEvent'.type = "JOIN_ROOM" /\ ~WellFormedRoomId(lastEvent'.roomArg)) =>
          /\ rooms' = rooms
          /\ roomStates' = roomStates
          /\ currentRoom' = currentRoom
          /\ socketRooms' = socketRooms ]_vars

(* what JOIN_ROOM does with any identifier: the socket joins the room      *)
(* sanitizeRoomId names, which is well-formed and has its drawing state    *)
C29_JoinsSanitized ==
    Ran("JOIN_ROOM") =>
        /\ lastEvent.room = sanitizeRoomId(lastEvent.roomArg)
        /\ WellFormedRoomId(RoomArg(lastEvent.room))
        /\ currentRoom[lastEvent.sender] = lastEvent.room
        /\ hasUser(rooms, lastEvent.room, lastEvent.sender)
        /\ lastEvent.room \in DOMAIN roomStates

(* a socket sent JOIN_ROOM('r 1') and is now a member of room 'r1' *)
C29_JoinedStripped ==
    /\ Ran("JOIN_ROOM")
    /\ ~WellFormedRoomId(lastEvent.roomArg)
    /\ lastEvent.room # DefaultRoom
    /\ hasUser(rooms, lastEvent.room, lastEvent.sender)

Reverse(q) == [i \in 1..Len(q) |-> q[Len(q) - i + 1]]

(* history followed by the redo stack from its top down *)
Timeline(state) == state.history \o Reverse(state.redoStack)

(* C30: the redo stack is last-in-first-out and only undo, redo,            *)
(* addOperation and clear change it (deleteRoom ends the room's state      *)
(* altogether): undo pushes the history's tail on it, redo pops its top to *)
(* the history's tail, both leave the history followed by the reversed     *)
(* redo stack as it was, and k undo calls followed by k redo calls, k at   *)
(* most the history's length, leave history and redo stack as they were.   *)
C30_RedoStackLifo ==
    [][ LET room == lastEvent'.room
            type == lastEvent'.type
            before == StateOf(roomStates, room)
            after == StateOf(roomStates', room)
        IN  /\ type \in {"undo", "redo"} => Timeline(after) = Timeline(before)
            /\ (type = "undo" /\ before.history # <<>>) =>
                   /\ after.redoStack = Append(before.redoStack, Last(before.history))
                   /\ after.history = Front(before.history)
            /\ (type = "redo" /\ before.redoStack # <<>>) =>
                   /\ after.redoStack = Front(before.redoStack)
                   /\ after.history = Append(before.history, Last(before.redoStack))
            /\ type = "undos-redos" =>
                   /\ after = before
                   /\ Timeline(StateOf(pre', room)) = Timeline(before)
            /\ type = "deleteRoom" => room \notin DOMAIN roomStates'
            /\ type \notin {"undo", "redo", "addOperation", "clear", "deleteRoom"} =>
                   after.redoStack = before.redoStack ]_vars

(* two undo calls on a history of two different operations, which empty it *)
(* onto the redo stack, then two redo calls                                *)
C30_Witness ==
    /\ lastEvent.type = "undos-redos"
    /\ Len(After.history) = 2
    /\ After.history[1] # After.history[2]
    /\ After.redoStack = <<>>
    /\ Before.history = <<>>
    /\ Before.redoStack = <<After.history[2], After.history[1]>>

(* a redo took the operation undone last while an older one stayed behind *)
C30_PoppedNewest ==
    /\ lastEvent.type = "redo"
    /\ Len(After.redoStack) >= 1
    /\ Len(After.history) >= 1
    /\ After.redoStack[1] # Last(After.history)

(* C31: in every reachable state the history and the redo stack of every   *)
(* room hold at most MAX_HISTORY_SIZE operations together; so a REDO, which *)
(* pushes on history without testing the bound, never takes history above  *)
(* it, and an accepted DRAW that evicts found the redo stack empty.         *)
C31_HistoryPlusRedoBounded ==
    /\ \A room \in DOMAIN roomStates :
           Len(roomStates[room].history) + Len(roomStates[room].redoStack)
               <= MAX_HISTORY_SIZE
    /\ Ran("REDO") => Len(After.history) <= MAX_HISTORY_SIZE
    /\ (Accepted(lastEvent) /\ Len(Before.history) = MAX_HISTORY_SIZE) =>
           Before.redoStack = <<>>

(* a REDO took the last operation off the redo stack and filled the        *)
(* history up to the bound                                                 *)
C31_Witness ==
    /\ Ran("REDO")
    /\ Len(Before.redoStack) >= 1
    /\ Len(Before.history) = MAX_HISTORY_SIZE - 1
    /\ Len(After.history) = MAX_HISTORY_SIZE
    /\ After.redoStack = <<>>

(* C32: every DRAW, DRAW_HISTORY, CLEAR, CURSOR_MOVE, UNDO_REDO_STATE,      *)
(* USER_JOINED and USER_LEFT the server emits for a room goes only to       *)
(* sockets whose current room is that room: a socket that has joined        *)
(* another room since receives nothing more from the room it was in.        *)
C32_BroadcastsConfined ==
    \A i \in 1..Len(outbox) :
        outbox[i].type \in {"DRAW", "DRAW_HISTORY", "CLEAR", "CURSOR_MOVE",
                            "UNDO_REDO_STATE", "USER_JOINED", "USER_LEFT"} =>
            \A t \in outbox[i].to : currentRoom[t] = lastEvent.room

(* a stroke drawn in a room was sent to a socket that had moved on to       *)
(* another room                                                            *)
C32_StrokeToFormerMember ==
    /\ Accepted(lastEvent)
    /\ outbox # <<>>
    /\ outbox[1].type = "DRAW"
    /\ \E t \in outbox[1].to :
           /\ connected[t]
           /\ currentRoom[t] # lastEvent.room
           /\ hasUser(rooms, currentRoom[t], t)

(* the history ends the sequence *)
IsSuffix(h, q) == Len(h) <= Len(q) /\ SubSeq(q, Len(q) - Len(h) + 1, Len(q)) = h

(* C33: a browser that has joined and draws nothing itself shows, once it  *)
(* has handled every message sent to it, exactly the history of its room,  *)
(* whatever the other members drew, undid, redid and cleared, appends that *)
(* evict at MAX_HISTORY_SIZE included.                                      *)
C33_WatcherInSync ==
    (Quiet /\ currentRoom[Watcher] # NULL) =>
        clients[Watcher].canvas = StateOf(roomStates, currentRoom[Watcher]).history

(* what holds instead: the history is the end of what the browser shows,    *)
(* and all of it as long as the browser shows no more than a history holds *)
C33_HistoryEndsCanvas ==
    (Quiet /\ currentRoom[Watcher] # NULL) =>
        LET history == StateOf(roomStates, currentRoom[Watcher]).history
            canvas == clients[Watcher].canvas
        IN  /\ IsSuffix(history, canvas)
            /\ Len(canvas) <= MAX_HISTORY_SIZE => canvas = history

(* the browser has handled the DRAW of a stroke that evicted the oldest    *)
(* one: it shows the evicted stroke, which the server no longer holds       *)
C33_ShowsEvicted ==
    /\ Quiet
    /\ currentRoom[Watcher] # NULL
    /\ Len(StateOf(roomStates, currentRoom[Watcher]).history) = MAX_HISTORY_SIZE
    /\ Len(clients[Watcher].canvas) = MAX_HISTORY_SIZE + 1
    /\ Tail(clients[Watcher].canvas) = StateOf(roomStates, currentRoom[Watcher]).history

(* a second stroke was drawn and the browser shows both strokes, each once *)
C33_ShowsBothStrokes ==
    /\ Quiet
    /\ currentRoom[Watcher] # NULL
    /\ Len(clients[Watcher].canvas) = 2
    /\ clients[Watcher].canvas = StateOf(roomStates, currentRoom[Watcher]).history
    /\ Accepted(lastEvent)
    /\ Len(Before.history) = 1

====
